---- MODULE Spec2Model ----
(***************************************************************************)
(* ScoreForge core: the text command parser (core/command_parser.py) and   *)
(* the command executor / score builder (core/command_executor.py).        *)
(*                                                                         *)
(* Text is a sequence of one-character strings.  An optional value (a      *)
(* Python Optional) is <<>> for None and <<v>> for a value v.  Lengths are *)
(* counted in units of 1/48 of a quarter note, so that every quarterLength *)
(* of DURATION_MAP, dotted or not, and every capacity is an integer.       *)
(***************************************************************************)
EXTENDS Integers, Sequences, FiniteSets, TLC

VARIABLES
    \* ---- CommandExecutor and one create_score_from_elements call ----
    pending_tie,        \* self._pending_tie: <<>> or <<pitch>> of the tie-start note
    bpc,                \* position of the build: "idle", "building", "done"
    input,              \* the elements the for loop has processed so far
    part,               \* the music21 Part: placed items, the default clef first
    current_measure,    \* the open Measure
    measure_offset,     \* running offset in the open measure
    beats_per_measure,  \* capacity used by the bin packing
    current_time_sig,   \* the last TimeSignature object seen
    \* ---- CommandParser and one parse(text) call ----
    text,               \* the text handed to parse, put together chunk by chunk
    typed,              \* number of chunks in text
    call,               \* the method called: "none", "parse" or "validate"
    calls,              \* number of calls made on this parser instance
    ppc,                \* position of the parse: "idle", "lines", "tokens", "done", "raised"
    errors,             \* self.errors
    elements,           \* the element list parse returns
    lines,              \* text.strip().split("\n")
    line_num,           \* number of lines the for loop has finished
    tokens,             \* the tokens of the line being parsed
    i,                  \* index of the while loop of _parse_line
    line_elements,      \* elements of _parse_line
    \* ---- the Score wrapper of `part` and one add_elements_to_score call ----
    undo_stack,         \* Score._undo_stack: saved contents, oldest first
    redo_stack,         \* Score._redo_stack
    edits,              \* number of editing calls made on the score
    ret,                \* the last undo() or redo() call and what it returned
    apc,                \* position of the add call: "idle", "adding", "raised"
    added,              \* the elements handed to add_elements_to_score so far
    current_offset      \* running offset of the add call

bvars == <<pending_tie, bpc, input, part, current_measure, measure_offset,
           beats_per_measure, current_time_sig>>

pvars == <<text, typed, call, calls, ppc, errors, elements, lines, line_num, tokens, i, line_elements>>

svars == <<undo_stack, redo_stack, edits, ret, apc, added, current_offset>>

vars == <<bvars, pvars, svars>>

(***************************************************************************)
(* Bounds of the exploration.                                              *)
(***************************************************************************)
MaxElems == 3       \* elements per build, full element alphabet
MaxEvents == 5      \* elements per build, short alphabet of events
MaxChunks == 3      \* chunks per text handed to parse
MaxCalls == 2       \* calls on one parser instance

(***************************************************************************)
(* Text helpers.                                                           *)
(***************************************************************************)
None == <<>>
Some(v) == <<v>>

Last(seq) == seq[Len(seq)]

UpperChars == <<"A","B","C","D","E","F","G","H","I","J","K","L","M",
                "N","O","P","Q","R","S","T","U","V","W","X","Y","Z">>
LowerChars == <<"a","b","c","d","e","f","g","h","i","j","k","l","m",
                "n","o","p","q","r","s","t","u","v","w","x","y","z">>
Digits == {"0","1","2","3","4","5","6","7","8","9"}

IndexIn(c, s) == IF \E k \in 1..Len(s) : s[k] = c
                 THEN CHOOSE k \in 1..Len(s) : s[k] = c
                 ELSE 0

\* str.lower() / str.upper() on one character
LowerChar(c) == IF IndexIn(c, UpperChars) > 0 THEN LowerChars[IndexIn(c, UpperChars)] ELSE c
UpperChar(c) == IF IndexIn(c, LowerChars) > 0 THEN UpperChars[IndexIn(c, LowerChars)] ELSE c
Lower(s) == [k \in 1..Len(s) |-> LowerChar(s[k])]
Upper(s) == [k \in 1..Len(s) |-> UpperChar(s[k])]

\* str.isspace() on one character
IsSpace(c) == c \in {" ", "\n", "\t"}

RECURSIVE LStrip(_)
LStrip(s) == IF s # <<>> /\ IsSpace(Head(s)) THEN LStrip(Tail(s)) ELSE s
RECURSIVE RStrip(_)
RStrip(s) == IF s # <<>> /\ IsSpace(s[Len(s)]) THEN RStrip(SubSeq(s, 1, Len(s) - 1)) ELSE s
\* str.strip()
Strip(s) == RStrip(LStrip(s))

\* mutant: the text is not cut at the separator
SplitOnNothing(s, sep) == <<s>>

\* str.split(sep) for a one-character separator: always at least one piece
RECURSIVE SplitOn(_, _)
SplitOn(s, sep) ==
    IF \E k \in 1..Len(s) : s[k] = sep
    THEN LET k == CHOOSE j \in 1..Len(s) : s[j] = sep /\ \A m \in 1..(j - 1) : s[m] # sep
         IN  <<SubSeq(s, 1, k - 1)>> \o SplitOn(SubSeq(s, k + 1, Len(s)), sep)
    ELSE <<s>>

\* str.split() with no argument: the maximal runs of non-space characters
RECURSIVE SplitWs(_)
SplitWs(s) ==
    LET t == LStrip(s) IN
    IF t = <<>> THEN <<>>
    ELSE IF \E k \in 1..Len(t) : IsSpace(t[k])
         THEN LET k == CHOOSE j \in 1..Len(t) : IsSpace(t[j]) /\ \A m \in 1..(j - 1) : ~IsSpace(t[m])
              IN  <<SubSeq(t, 1, k - 1)>> \o SplitWs(SubSeq(t, k + 1, Len(t)))
         ELSE <<t>>

(***************************************************************************)
(* Parsed elements (command_parser.py dataclasses).                        *)
(***************************************************************************)
DurationCodes == {"w", "h", "q", "e", "s", "t"}

ParsedNote(pitch, duration, dotted, lyric, tied) ==
    [kind |-> "Note", pitch |-> pitch, duration |-> duration, dotted |-> dotted,
     lyric |-> lyric, tied |-> tied]
ParsedRest(duration, dotted) ==
    [kind |-> "Rest", duration |-> duration, dotted |-> dotted]
ParsedChord(notes, duration, dotted, lyric) ==
    [kind |-> "Chord", notes |-> notes, duration |-> duration, dotted |-> dotted,
     lyric |-> lyric]
ParsedBarline(style) == [kind |-> "Barline", style |-> style]
ParsedCommand(command, value) == [kind |-> "Command", command |-> command, value |-> value]

(***************************************************************************)
(* CommandParser: regular expressions, tokenizer and the per-token parse.  *)
(* Token indices are 0-based as in the code: token k of the Python list is *)
(* tokens[k + 1] here.                                                     *)
(***************************************************************************)
StartsWith(s, c) == s # <<>> /\ s[1] = c
EndsWith(s, c) == s # <<>> /\ s[Len(s)] = c

\* an uncaught IndexError of a list access
IndexError == <<"IndexError">>

\* tokens[k] of a Python list
PyIndex(toks, k) == IF k >= 0 /\ k < Len(toks) THEN toks[k + 1] ELSE IndexError

\* tokens[k:] of a Python list
PyFrom(toks, k) == SubSeq(toks, k + 1, Len(toks))

\* mutant: any letter is a pitch letter
IsPitchAnyLetter(token) ==
    /\ Len(token) \in 2..4
    /\ IndexIn(UpperChar(token[1]), UpperChars) > 0
    /\ \A k \in 2..(Len(token) - 1) : token[k] \in {"#", "b"}
    /\ token[Len(token)] \in Digits

\* PITCH_PATTERN ^([A-Ga-g])([#b]{0,2})(\d)$ and _is_pitch
IsPitch(token) ==
    /\ Len(token) \in 2..4
    /\ token[1] \in {"A","B","C","D","E","F","G","a","b","c","d","e","f","g"}
    /\ \A k \in 2..(Len(token) - 1) : token[k] \in {"#", "b"}
    /\ token[Len(token)] \in Digits

\* Duration.from_code: the member whose value is the lower-cased code
DurationFromCode(code) ==
    IF LowerChar(code) \in DurationCodes THEN Some(LowerChar(code)) ELSE None

\* DURATION_PATTERN ^([whqest])(\.?)$, IGNORECASE, and _parse_duration_token:
\* <<duration or None, dotted>>
ParseDurationToken(token) ==
    IF /\ Len(token) \in {1, 2}
       /\ LowerChar(token[1]) \in {"w", "h", "q", "e", "s", "t"}
       /\ Len(token) = 2 => token[2] = "."
    THEN <<DurationFromCode(token[1]), Len(token) = 2>>
    ELSE <<None, FALSE>>

\* LYRIC_PATTERN.match(token) for "([^"]*)": group(1), or None; the pattern is
\* anchored at the start of the token only
LyricMatch(token) ==
    IF StartsWith(token, "\"") /\ \E k \in 2..Len(token) : token[k] = "\""
    THEN LET k == CHOOSE j \in 2..Len(token) :
                      token[j] = "\"" /\ \A m \in 2..(j - 1) : token[m] # "\""
         IN  Some(SubSeq(token, 2, k - 1))
    ELSE None

CommandWords == {<<"k","e","y">>, <<"t","i","m","e">>, <<"t","e","m","p","o">>,
                 <<"c","l","e","f">>}

\* mutant: the keyword is matched in lower case only
CommandMatchCaseSensitive(line) ==
    IF \E k \in 1..Len(line) :
           line[k] = ":" /\ SubSeq(line, 1, k - 1) \in CommandWords /\ k < Len(line)
    THEN LET k == CHOOSE j \in 1..Len(line) :
                      line[j] = ":" /\ SubSeq(line, 1, j - 1) \in CommandWords
             rest == SubSeq(line, k + 1, Len(line))
         IN  Some(<<SubSeq(line, 1, k - 1),
                    IF LStrip(rest) # <<>> THEN LStrip(rest) ELSE <<Last(rest)>>>>)
    ELSE None

\* COMMAND_PATTERN ^(key|time|tempo|clef):\s*(.+)$, IGNORECASE, on a stripped line:
\* <<group(1), group(2)>>, or None
CommandMatch(line) ==
    IF \E k \in 1..Len(line) :
           /\ line[k] = ":"
           /\ Lower(SubSeq(line, 1, k - 1)) \in CommandWords
           /\ k < Len(line)
    THEN LET k == CHOOSE j \in 1..Len(line) :
                      line[j] = ":" /\ Lower(SubSeq(line, 1, j - 1)) \in CommandWords
             rest == SubSeq(line, k + 1, Len(line))
         IN  Some(<<SubSeq(line, 1, k - 1),
                    IF LStrip(rest) # <<>> THEN LStrip(rest) ELSE <<Last(rest)>>>>)
    ELSE None

\* mutant: every barline literal has the style single
BarlineStyleAlwaysSingle(token) ==
    IF token \in {<<"|","|","|">>, <<"|","|">>, <<"|">>, <<"m","e","a","s","u","r","e">>}
    THEN Some("single") ELSE None

\* BARLINE_PATTERNS: the style of a barline literal, or None
BARLINE_PATTERNS(token) ==
    CASE token = <<"|","|","|">> -> Some("final")
      [] token = <<"|","|">> -> Some("double")
      [] token = <<"|">> -> Some("single")
      [] token = <<"m","e","a","s","u","r","e">> -> Some("single")
      [] OTHER -> None

\* _tokenize: the scan state after the characters of `line`
RECURSIVE TokenizeScan(_, _)
TokenizeScan(line, st) ==
    IF line = <<>> THEN st
    ELSE LET char == Head(line)
             flushed == IF Strip(st.current) # <<>> THEN Append(st.tokens, Strip(st.current))
                        ELSE st.tokens
             nxt ==
               IF char = "\""
               THEN [st EXCEPT !.in_quotes = ~st.in_quotes, !.current = Append(st.current, char)]
               ELSE IF char = "["
               THEN [st EXCEPT !.in_brackets = TRUE, !.tokens = flushed, !.current = <<char>>]
               ELSE IF char = "]"
               THEN [st EXCEPT !.in_brackets = FALSE,
                               !.tokens = Append(st.tokens, Strip(Append(st.current, char))),
                               !.current = <<>>]
               ELSE IF IsSpace(char) /\ ~st.in_quotes /\ ~st.in_brackets
               THEN [st EXCEPT !.tokens = flushed, !.current = <<>>]
               ELSE [st EXCEPT !.current = Append(st.current, char)]
         IN  TokenizeScan(Tail(line), nxt)

Tokenize(line) ==
    LET st == TokenizeScan(line, [tokens |-> <<>>, current |-> <<>>,
                                  in_quotes |-> FALSE, in_brackets |-> FALSE])
    IN  IF Strip(st.current) # <<>> THEN Append(st.tokens, Strip(st.current)) ELSE st.tokens

\* the duration lookahead of _parse_note and _parse_chord at tokens[consumed]:
\* <<duration, dotted, consumed>>
DurationLookahead(toks, consumed) ==
    IF consumed < Len(toks) /\ ParseDurationToken(PyIndex(toks, consumed))[1] # None
    THEN <<ParseDurationToken(PyIndex(toks, consumed))[1][1],
           ParseDurationToken(PyIndex(toks, consumed))[2], consumed + 1>>
    ELSE <<"q", FALSE, consumed>>

\* the lyric lookahead of _parse_note and _parse_chord: <<lyric or None, consumed>>
LyricLookahead(toks, consumed) ==
    IF consumed < Len(toks) /\ LyricMatch(PyIndex(toks, consumed)) # None
    THEN <<LyricMatch(PyIndex(toks, consumed)), consumed + 1>>
    ELSE <<None, consumed>>

\* mutant: a note that has neither duration nor lyric consumes no token
ParseNoteBareConsumesNone(toks) ==
    IF toks = <<>> \/ ~IsPitch(toks[1]) THEN <<None, 0>>
    ELSE LET tied == EndsWith(toks[1], "-")
             pitch == IF tied THEN SubSeq(toks[1], 1, Len(toks[1]) - 1) ELSE toks[1]
             dur == DurationLookahead(toks, 1)
             lyr == LyricLookahead(toks, dur[3])
         IN  <<Some(ParsedNote(Upper(pitch), dur[1], dur[2], lyr[1], tied)),
               IF lyr[2] = 1 THEN 0 ELSE lyr[2]>>

\* _parse_note(tokens): <<ParsedNote or None, consumed>>
ParseNote(toks) ==
    IF toks = <<>> \/ ~IsPitch(toks[1]) THEN <<None, 0>>
    ELSE LET tied == EndsWith(toks[1], "-")
             pitch == IF tied THEN SubSeq(toks[1], 1, Len(toks[1]) - 1) ELSE toks[1]
             dur == DurationLookahead(toks, 1)
             lyr == LyricLookahead(toks, dur[3])
         IN  <<Some(ParsedNote(Upper(pitch), dur[1], dur[2], lyr[1], tied)), lyr[2]>>

\* the text between the tokens joined by the absorbing loop of _parse_chord
RECURSIVE AbsorbChord(_, _)
AbsorbChord(chord_token, rest) ==
    IF rest = <<>> THEN chord_token
    ELSE IF EndsWith(Head(rest), "]") THEN chord_token \o <<" ">> \o Head(rest)
         ELSE AbsorbChord(chord_token \o <<" ">> \o Head(rest), Tail(rest))

\* _parse_chord(tokens): <<ParsedChord or None, consumed>>
ParseChord(toks) ==
    IF toks = <<>> \/ ~StartsWith(toks[1], "[") THEN <<None, 0>>
    ELSE LET chord_token == IF EndsWith(toks[1], "]") THEN toks[1]
                            ELSE AbsorbChord(toks[1], Tail(toks))
             content == Strip(SubSeq(chord_token, 2, Len(chord_token) - 1))
             pitches == SelectSeq(SplitWs(content), IsPitch)
             notes == [k \in 1..Len(pitches) |-> Upper(pitches[k])]
             dur == DurationLookahead(toks, 1)
             lyr == LyricLookahead(toks, dur[3])
         IN  IF notes = <<>> THEN <<None, 0>>
             ELSE <<Some(ParsedChord(notes, dur[1], dur[2], lyr[1])), lyr[2]>>

\* mutant: the rest looks at its own token instead of the one after it
RestLookaheadSelf(toks, idx) == PyIndex(toks, idx)

\* mutant: the token after a rest is read without the bounds test
RestLookaheadUnguarded(toks, idx) == PyIndex(toks, idx + 1)

\* the token read ahead of a rest: tokens[i + 1] if i + 1 < len(tokens) else "q"
RestLookahead(toks, idx) ==
    IF idx + 1 < Len(toks) THEN PyIndex(toks, idx + 1) ELSE <<"q">>

\* one iteration of the while loop of _parse_line at index i:
\* the elements appended, the tokens consumed, and whether an exception escaped
TokenStep(toks, idx) ==
    LET token == PyIndex(toks, idx)
        chord == ParseChord(PyFrom(toks, idx))
        note == ParseNote(PyFrom(toks, idx))
        unknown == [elems |-> <<>>, consumed |-> 1, raised |-> FALSE]
    IN  IF Lower(token) = <<"r">>
        THEN LET ahead == RestLookahead(toks, idx) IN
             IF ahead = IndexError
             THEN [elems |-> <<>>, consumed |-> 0, raised |-> TRUE]
             ELSE IF ParseDurationToken(ahead)[1] # None
                  THEN [elems |-> <<ParsedRest(ParseDurationToken(ahead)[1][1],
                                               ParseDurationToken(ahead)[2])>>,
                        consumed |-> 2, raised |-> FALSE]
                  ELSE [elems |-> <<ParsedRest("q", FALSE)>>, consumed |-> 1, raised |-> FALSE]
        ELSE IF StartsWith(token, "[") /\ chord[1] # None
        THEN [elems |-> <<chord[1][1]>>, consumed |-> chord[2], raised |-> FALSE]
        ELSE IF BARLINE_PATTERNS(token) # None
        THEN [elems |-> <<ParsedBarline(BARLINE_PATTERNS(token)[1])>>, consumed |-> 1,
              raised |-> FALSE]
        ELSE IF IsPitch(token) /\ note[1] # None
        THEN [elems |-> <<note[1][1]>>, consumed |-> note[2], raised |-> FALSE]
        ELSE unknown

(***************************************************************************)
(* music21 objects as the executor builds them.  Every object is a record  *)
(* [cls, ql, tie, lyric, data]: ql is duration.quarterLength in units,     *)
(* tie is "none", "start" or "stop", data holds the pitch(es) or value.    *)
(***************************************************************************)
Unit == 48      \* units per quarter note

M21(cls, ql, tie, lyric, data) ==
    [cls |-> cls, ql |-> ql, tie |-> tie, lyric |-> lyric, data |-> data]

\* CommandExecutor.DURATION_MAP, in units
DURATION_MAP(d) ==
    CASE d = "w" -> 4 * Unit
      [] d = "h" -> 2 * Unit
      [] d = "q" -> Unit
      [] d = "e" -> Unit \div 2
      [] d = "s" -> Unit \div 4
      [] d = "t" -> Unit \div 8

\* mutant: the dot is ignored
QuarterLengthUndotted(duration, dotted) ==
    IF duration \in DurationCodes THEN DURATION_MAP(duration) ELSE Unit

\* quarter_length = DURATION_MAP.get(duration, 1.0); if dotted: quarter_length *= 1.5
QuarterLength(duration, dotted) ==
    LET base == IF duration \in DurationCodes THEN DURATION_MAP(duration) ELSE Unit
    IN  IF dotted THEN (base * 3) \div 2 ELSE base

\* Python truthiness of an Optional[str]: None and "" are falsy
Truthy(opt) == opt # None /\ opt[1] # <<>>

\* mutant: a tie-stop leaves the tie pending
TieOfKeepsPending(parsed, pending) ==
    IF parsed.tied THEN <<"start", <<parsed.pitch>>>>
    ELSE IF pending # <<>> THEN <<"stop", pending>>
    ELSE <<"none", pending>>

\* The tie decision of _create_note: <<tie mark of the new note, new _pending_tie>>
TieOf(parsed, pending) ==
    IF parsed.tied THEN <<"start", Some(parsed.pitch)>>
    ELSE IF pending # None THEN <<"stop", None>>
    ELSE <<"none", pending>>

\* _create_note without its effect on self._pending_tie
CreateNote(parsed, pending) ==
    M21("Note", QuarterLength(parsed.duration, parsed.dotted), TieOf(parsed, pending)[1],
        IF Truthy(parsed.lyric) THEN parsed.lyric ELSE None, <<parsed.pitch>>)

CreateRest(parsed) ==
    M21("Rest", QuarterLength(parsed.duration, parsed.dotted), "none", None, <<>>)

CreateChord(parsed) ==
    M21("Chord", QuarterLength(parsed.duration, parsed.dotted), "none",
        IF Truthy(parsed.lyric) THEN parsed.lyric ELSE None, parsed.notes)

\* _create_music_element: the object, or None
CreateMusicElement(elem, pending) ==
    CASE elem.kind = "Note"  -> Some(CreateNote(elem, pending))
      [] elem.kind = "Rest"  -> Some(CreateRest(elem))
      [] elem.kind = "Chord" -> Some(CreateChord(elem))
      [] OTHER -> None

\* mutant: a tie-stop leaves self._pending_tie set
PendingAfterKeepsStart(elem, pending) ==
    IF elem.kind = "Note" /\ elem.tied THEN Some(elem.pitch) ELSE pending

\* self._pending_tie after _create_music_element
PendingAfter(elem, pending) ==
    IF elem.kind = "Note" THEN TieOf(elem, pending)[2] ELSE pending

\* `if m21_elem:` - a music21 Chord has __len__, so a chord of no pitches is falsy
ObjTruthy(opt) == opt # None /\ ~(opt[1].cls = "Chord" /\ opt[1].data = <<>>)

\* _create_barline: the music21 barline type
CreateBarline(parsed) ==
    CASE parsed.style = "single" -> "regular"
      [] parsed.style = "double" -> "double"
      [] parsed.style = "final"  -> "final"
      [] OTHER -> "regular"

(***************************************************************************)
(* Command interpretation (_create_command_element and its helpers).  The  *)
(* music21 constructors are modelled on the values the model feeds them.   *)
(***************************************************************************)
\* CLEF_MAP: clef name -> music21 clef class
CLEF_MAP(name) ==
    CASE name = <<"t","r","e","b","l","e">>     -> Some("TrebleClef")
      [] name = <<"b","a","s","s">>             -> Some("BassClef")
      [] name = <<"a","l","t","o">>             -> Some("AltoClef")
      [] name = <<"t","e","n","o","r">>         -> Some("TenorClef")
      [] name = <<"s","o","p","r","a","n","o">> -> Some("SopranoClef")
      [] OTHER -> None

ClefClasses == {"TrebleClef", "BassClef", "AltoClef", "TenorClef", "SopranoClef"}

\* mutant: an unknown clef name gives the treble clef
ParseClefDefaultTreble(value) ==
    LET cls == CLEF_MAP(Strip(Lower(value)))
    IN  IF cls # None THEN Some(M21(cls[1], 0, "none", None, <<>>))
        ELSE Some(M21("TrebleClef", 0, "none", None, <<>>))

\* _parse_clef
ParseClef(value) ==
    LET cls == CLEF_MAP(Strip(Lower(value)))
    IN  IF cls # None THEN Some(M21(cls[1], 0, "none", None, <<>>)) ELSE None

\* re.search(r'(\d+)', value): the first maximal run of digits, <<>> when none
RECURSIVE FirstDigits(_)
FirstDigits(s) ==
    IF s = <<>> THEN <<>>
    ELSE IF Head(s) \in Digits
         THEN LET RECURSIVE Run(_)
                  Run(t) == IF t # <<>> /\ Head(t) \in Digits THEN <<Head(t)>> \o Run(Tail(t))
                            ELSE <<>>
              IN  Run(s)
         ELSE FirstDigits(Tail(s))

\* _parse_tempo
ParseTempo(value) ==
    IF FirstDigits(value) # <<>>
    THEN Some(M21("MetronomeMark", 0, "none", None, <<FirstDigits(value)>>))
    ELSE None

\* music21 meter.TimeSignature(value): <<beatCount, beatDuration.quarterLength in
\* units>> for the signatures the model uses; any other string raises
TimeSignatureBeats(value) ==
    CASE value = <<"4","/","4">> -> Some(<<4, Unit>>)
      [] value = <<"3","/","4">> -> Some(<<3, Unit>>)
      [] value = <<"2","/","4">> -> Some(<<2, Unit>>)
      [] value = <<"2","/","2">> -> Some(<<2, 2 * Unit>>)
      [] value = <<"6","/","8">> -> Some(<<2, (3 * Unit) \div 2>>)
      [] OTHER -> None

\* _parse_time_signature: data is <<value, beatCount, beatDuration>>
ParseTimeSignature(value) ==
    IF TimeSignatureBeats(value) # None
    THEN Some(M21("TimeSignature", 0, "none", None,
                  <<value, TimeSignatureBeats(value)[1][1], TimeSignatureBeats(value)[1][2]>>))
    ELSE None

\* music21 key.Key(tonic, mode) accepts a tonic letter A-G with at most one of
\* '#', '-' or 'b' and, when a mode is given, the modes major and minor
KeyTonicOk(tonic) ==
    /\ Len(tonic) \in {1, 2}
    /\ UpperChar(tonic[1]) \in {"A","B","C","D","E","F","G"}
    /\ Len(tonic) = 2 => tonic[2] \in {"#", "-", "b"}

KeyModes == {<<"m","a","j","o","r">>, <<"m","i","n","o","r">>}

\* _parse_key_signature
ParseKeySignature(value0) ==
    LET value == Strip(value0)
        parts == SplitWs(value)
        tonic0 == parts[1]
        tonic == IF Len(tonic0) > 1
                 THEN IF tonic0[2] = "#" THEN <<tonic0[1], "#">>
                      ELSE IF LowerChar(tonic0[2]) = "b" THEN <<tonic0[1], "-">>
                      ELSE IF tonic0[2] = "-" THEN <<tonic0[1], "-">>
                      ELSE tonic0
                 ELSE tonic0
        mode0 == Lower(parts[2])
        mode == IF mode0 \in {<<"m","a","j","o","r">>, <<"m","a","j">>, <<"m">>}
                THEN <<"m","a","j","o","r">>
                ELSE IF mode0 \in {<<"m","i","n","o","r">>, <<"m","i","n">>}
                     THEN <<"m","i","n","o","r">>
                     ELSE mode0
    IN  IF Len(parts) >= 2 /\ KeyTonicOk(tonic) /\ mode \in KeyModes
        THEN Some(M21("Key", 0, "none", None, <<tonic, mode>>))
        ELSE IF KeyTonicOk(value)
             THEN Some(M21("Key", 0, "none", None, <<value>>))
             ELSE None

\* _create_command_element
CreateCommandElement(parsed) ==
    LET cmd == Lower(parsed.command)
        value == Strip(parsed.value)
    IN  CASE cmd = <<"k","e","y">>         -> ParseKeySignature(value)
          [] cmd = <<"t","i","m","e">>     -> ParseTimeSignature(value)
          [] cmd = <<"t","e","m","p","o">> -> ParseTempo(value)
          [] cmd = <<"c","l","e","f">>     -> ParseClef(value)
          [] OTHER -> None

(***************************************************************************)
(* music21 streams.  A stream holds placed items [offset, obj]; append     *)
(* places at the stream's highestTime.                                     *)
(***************************************************************************)
Max(a, b) == IF a >= b THEN a ELSE b

RECURSIVE HighestTime(_)
HighestTime(items) ==
    IF items = <<>> THEN 0
    ELSE Max(Head(items).offset + Head(items).obj.ql, HighestTime(Tail(items)))

\* Stream.append(obj)
StreamAppend(items, obj) == Append(items, [offset |-> HighestTime(items), obj |-> obj])

\* Stream.insert(offset, obj)
StreamInsert(items, offset, obj) == Append(items, [offset |-> offset, obj |-> obj])

\* stream.Measure(number=n): ql is the measure's duration, its highestTime
Measure(number, items, rightBarline) ==
    [cls |-> "Measure", number |-> number, items |-> items, rightBarline |-> rightBarline,
     ql |-> HighestTime(items)]

NewMeasure(number) == Measure(number, <<>>, "none")

MeasureAppend(m, obj) == Measure(m.number, StreamAppend(m.items, obj), m.rightBarline)

\* Stream.notes: the Note and Chord items, not the Rests
Notes(items) == SelectSeq(items, LAMBDA it : it.obj.cls \in {"Note", "Chord"})

\* Stream.getElementsByClass(clef.Clef)
Clefs(items) == SelectSeq(items, LAMBDA it : it.obj.cls \in ClefClasses)

\* the measures of a part, in stream order
MeasuresOf(p) == SelectSeq(p, LAMBDA it : it.obj.cls = "Measure")

\* the Note, Rest and Chord items of a measure
EventsOf(m) == SelectSeq(m.items, LAMBDA it : it.obj.cls \in {"Note", "Rest", "Chord"})

(***************************************************************************)
(* The inputs of the builds: element lists over Elements of at most        *)
(* MaxElems elements, and over the shorter alphabet EventElems of at most  *)
(* MaxEvents elements.                                                     *)
(***************************************************************************)
PC4 == <<"C","4">>
PD4 == <<"D","4">>
PE4 == <<"E","4">>

NoteQ    == ParsedNote(PC4, "q", FALSE, None, FALSE)
NoteTied == ParsedNote(PD4, "q", FALSE, None, TRUE)
NoteLong == ParsedNote(PE4, "w", TRUE, None, FALSE)
RestH    == ParsedRest("h", FALSE)
ChordQ   == ParsedChord(<<PC4, PE4>>, "q", FALSE, Some(<<"l","a">>))

CmdTime44   == ParsedCommand(<<"t","i","m","e">>, <<"4","/","4">>)
CmdTime34   == ParsedCommand(<<"t","i","m","e">>, <<"3","/","4">>)
CmdTime22   == ParsedCommand(<<"t","i","m","e">>, <<"2","/","2">>)
CmdTimeBad  == ParsedCommand(<<"t","i","m","e">>, <<"f","a","s","t">>)
CmdClef     == ParsedCommand(<<"c","l","e","f">>, <<"B","a","s","s">>)
CmdClefBad  == ParsedCommand(<<"c","l","e","f">>, <<"l","o","w">>)
CmdKey      == ParsedCommand(<<"k","e","y">>, <<"G"," ","m","a","j","o","r">>)
CmdKeyBad   == ParsedCommand(<<"k","e","y">>, <<"H"," ","m","a","j","o","r">>)
CmdTempo    == ParsedCommand(<<"t","e","m","p","o">>, <<"1","2","0">>)
CmdTempoBad == ParsedCommand(<<"t","e","m","p","o">>, <<"f","a","s","t">>)

Elements ==
    {NoteQ, NoteTied, NoteLong, RestH, ChordQ,
     ParsedBarline("single"), ParsedBarline("double"), ParsedBarline("final"),
     CmdTime44, CmdTime34, CmdTime22, CmdTimeBad, CmdClef, CmdClefBad, CmdKey,
     CmdKeyBad, CmdTempo, CmdTempoBad}

EventElems == {NoteQ, NoteTied, RestH, ParsedBarline("single"), CmdTime22}

Admissible(list) ==
    \/ Len(list) <= MaxElems /\ \A k \in 1..Len(list) : list[k] \in Elements
    \/ Len(list) <= MaxEvents /\ \A k \in 1..Len(list) : list[k] \in EventElems

(***************************************************************************)
(* create_score_from_elements, one action per element of the for loop.     *)
(***************************************************************************)
TrebleClef == M21("TrebleClef", 0, "none", None, <<>>)
DefaultTimeSig == M21("TimeSignature", 0, "none", None, <<<<"4","/","4">>, 4, Unit>>)

\* beats_per_measure = beatCount * (4.0 / beatDuration.quarterLength), in units
BeatsPerMeasure(ts) == (ts.data[2] * 4 * Unit * Unit) \div ts.data[3]

\* mutants: an exact fill closes the measure; the event's length is left out
NeedsNewMeasureOnFill(offset, ql, capacity) == offset + ql >= capacity
NeedsNewMeasureNoLength(offset, ql, capacity) == offset > capacity

\* if measure_offset + elem_duration > beats_per_measure
NeedsNewMeasure(offset, ql, capacity) == offset + ql > capacity

\* part.append(current_measure), then part[-1].rightBarline = bar.Barline(style)
CloseMeasure(p, m, style) ==
    LET q == StreamAppend(p, m)
        last == q[Len(q)]
    IN  IF style \in {"double", "final"}
        THEN [q EXCEPT ![Len(q)] =
                 [last EXCEPT !.obj = Measure(last.obj.number, last.obj.items, style)]]
        ELSE q

\* if current_measure.notes or current_measure.getElementsByClass(clef.Clef)
FinalMeasureHasContent(m) == Notes(m.items) # <<>> \/ Clefs(m.items) # <<>>

\* what undo() or redo() returned; no call was made yet on a new Score
Return(name, value) == [call |-> name, value |-> value]
NoReturn == Return("none", FALSE)

BInit ==
    /\ pending_tie = None
    /\ bpc = "idle"
    /\ input = <<>>
    /\ part = <<>>
    /\ current_measure = NewMeasure(1)
    /\ measure_offset = 0
    /\ beats_per_measure = 4 * Unit
    /\ current_time_sig = DefaultTimeSig

\* lines 75-85: a call on an executor that may have been used before; the Score
\* of the build before it is let go
BeginBuild ==
    /\ bpc \in {"idle", "done"}
    /\ apc # "adding"
    /\ bpc' = "building"
    /\ input' = <<>>
    /\ part' = StreamAppend(<<>>, TrebleClef)
    /\ current_measure' = NewMeasure(1)
    /\ measure_offset' = 0
    /\ current_time_sig' = DefaultTimeSig
    /\ beats_per_measure' = 4 * Unit
    /\ undo_stack' = <<>>
    /\ redo_stack' = <<>>
    /\ edits' = 0
    /\ ret' = NoReturn
    /\ apc' = "idle"
    /\ added' = <<>>
    /\ current_offset' = 0
    /\ UNCHANGED pending_tie
    /\ UNCHANGED pvars

\* lines 89-96
ProcessCommand(elem) ==
    /\ bpc = "building"
    /\ elem.kind = "Command"
    /\ Admissible(Append(input, elem))
    /\ input' = Append(input, elem)
    /\ LET m21_elem == CreateCommandElement(elem) IN
       IF ObjTruthy(m21_elem)
       THEN /\ IF m21_elem[1].cls = "TimeSignature"
               THEN /\ current_time_sig' = m21_elem[1]
                    /\ beats_per_measure' = BeatsPerMeasure(m21_elem[1])
               ELSE UNCHANGED <<current_time_sig, beats_per_measure>>
            /\ current_measure' = MeasureAppend(current_measure, m21_elem[1])
       ELSE UNCHANGED <<current_time_sig, beats_per_measure, current_measure>>
    /\ UNCHANGED <<pending_tie, bpc, part, measure_offset>>
    /\ UNCHANGED <<pvars, svars>>

\* mutant: a barline on an empty measure closes nothing
ProcessBarlineSkipsEmpty(elem) ==
    /\ bpc = "building"
    /\ elem.kind = "Barline"
    /\ Admissible(Append(input, elem))
    /\ input' = Append(input, elem)
    /\ IF current_measure.items # <<>>
       THEN /\ part' = CloseMeasure(part, current_measure, elem.style)
            /\ current_measure' = NewMeasure(current_measure.number + 1)
       ELSE UNCHANGED <<part, current_measure>>
    /\ measure_offset' = 0
    /\ UNCHANGED <<pending_tie, bpc, beats_per_measure, current_time_sig>>
    /\ UNCHANGED <<pvars, svars>>

\* lines 98-108
ProcessBarline(elem) ==
    /\ bpc = "building"
    /\ elem.kind = "Barline"
    /\ Admissible(Append(input, elem))
    /\ input' = Append(input, elem)
    /\ part' = CloseMeasure(part, current_measure, elem.style)
    /\ current_measure' = NewMeasure(current_measure.number + 1)
    /\ measure_offset' = 0
    /\ UNCHANGED <<pending_tie, bpc, beats_per_measure, current_time_sig>>
    /\ UNCHANGED <<pvars, svars>>

\* lines 110-123
ProcessMusic(elem) ==
    /\ bpc = "building"
    /\ elem.kind \in {"Note", "Rest", "Chord"}
    /\ Admissible(Append(input, elem))
    /\ input' = Append(input, elem)
    /\ pending_tie' = PendingAfter(elem, pending_tie)
    /\ LET m21_elem == CreateMusicElement(elem, pending_tie) IN
       IF ObjTruthy(m21_elem)
       THEN LET elem_duration == m21_elem[1].ql
                fresh == NeedsNewMeasure(measure_offset, elem_duration, beats_per_measure)
                target == IF fresh THEN NewMeasure(current_measure.number + 1)
                          ELSE current_measure
            IN  /\ part' = IF fresh THEN CloseMeasure(part, current_measure, "single")
                           ELSE part
                /\ current_measure' = MeasureAppend(target, m21_elem[1])
                /\ measure_offset' = (IF fresh THEN 0 ELSE measure_offset) + elem_duration
       ELSE UNCHANGED <<part, current_measure, measure_offset>>
    /\ UNCHANGED <<bpc, beats_per_measure, current_time_sig>>
    /\ UNCHANGED <<pvars, svars>>

\* lines 125-137: the loop is over, the part is wrapped in a new Score (its
\* stacks empty, score.py lines 96-97) and returned
FinishBuild ==
    /\ bpc = "building"
    /\ bpc' = "done"
    /\ part' = IF FinalMeasureHasContent(current_measure)
               THEN StreamAppend(part, current_measure)
               ELSE part
    /\ undo_stack' = <<>>
    /\ redo_stack' = <<>>
    /\ edits' = 0
    /\ ret' = NoReturn
    /\ apc' = "idle"
    /\ added' = <<>>
    /\ current_offset' = 0
    /\ UNCHANGED <<pending_tie, input, current_measure, measure_offset,
                   beats_per_measure, current_time_sig>>
    /\ UNCHANGED pvars

(***************************************************************************)
(* The texts handed to parse: concatenations of at most MaxChunks chunks.  *)
(***************************************************************************)
Chunks ==
    { <<"C","4"," ">>,                      \* a pitch
      <<"c","#","4">>,                      \* a lower-case pitch with an accidental
      <<"-">>,                              \* the tie suffix
      <<" ","q">>,                          \* a duration
      <<" ","H",".">>,                      \* a dotted duration, upper case
      <<" ","\"","l"," ","a","\"">>,        \* a quoted lyric with a space inside
      <<"\"">>,                             \* a lone quote
      <<"\n">>,
      <<"r">>,
      <<"R">>,
      <<"r","e","s","t">>,
      <<"|">>,
      <<"m","e","a","s","u","r","e">>,
      <<"[","C","4"," ","x"," ","e","4","]">>,  \* a chord group with an entry that is no pitch
      <<"[">>,
      <<"]">>,
      <<"K","e","y",":"," ">>,              \* a command keyword
      <<"#"," ">>,                          \* a comment mark
      <<"Z","9"," ">> }                     \* an unknown token

\* the texts handed to validate
ValidateChunks ==
    { <<"C","4"," ">>, <<" ","q">>, <<"\"">>, <<"\n">>, <<"R">>, <<"|">>, <<"[">>,
      <<"K","e","y",":"," ">>, <<"Z","9"," ">> }

PInit ==
    /\ text = <<>>
    /\ typed = 0
    /\ call = "none"
    /\ calls = 0
    /\ ppc = "idle"
    /\ errors = <<>>
    /\ elements = <<>>
    /\ lines = <<>>
    /\ line_num = 0
    /\ tokens = <<>>
    /\ i = 0
    /\ line_elements = <<>>

\* the caller puts the text together before it calls parse
TypeChunk(c) ==
    /\ ppc = "idle"
    /\ typed < MaxChunks
    /\ text' = text \o c
    /\ typed' = typed + 1
    /\ UNCHANGED <<call, calls, ppc, errors, elements, lines, line_num, tokens, i, line_elements>>
    /\ UNCHANGED <<bvars, svars>>

\* mutant: the entry of parse keeps the diagnostics list and adds to it
ParseEntryKeepsErrors ==
    /\ calls' = calls + 1
    /\ ppc' = "lines"
    /\ errors' = Append(errors, [message |-> "stale", line |-> 0])
    /\ elements' = <<>>
    /\ lines' = SplitOn(Strip(text), "\n")
    /\ line_num' = 0
    /\ tokens' = <<>>
    /\ i' = 0
    /\ line_elements' = <<>>
    /\ UNCHANGED <<text, typed>>
    /\ UNCHANGED <<bvars, svars>>

\* parse, lines 186-190: the diagnostics and the elements start empty, the
\* text is cut into lines
ParseEntry ==
    /\ calls' = calls + 1
    /\ ppc' = "lines"
    /\ errors' = <<>>
    /\ elements' = <<>>
    /\ lines' = SplitOn(Strip(text), "\n")
    /\ line_num' = 0
    /\ tokens' = <<>>
    /\ i' = 0
    /\ line_elements' = <<>>
    /\ UNCHANGED <<text, typed>>
    /\ UNCHANGED <<bvars, svars>>

\* the first call on a new parser: parse(text)
ParseBegin ==
    /\ ppc = "idle"
    /\ call' = "parse"
    /\ ParseEntry

\* a parser that has returned is called again: parse(text)
ParseAgain ==
    /\ ppc = "done"
    /\ calls < MaxCalls
    /\ call' = "parse"
    /\ ParseEntry

\* a call of validate(text) on a new parser or on one that has returned;
\* line 434: it calls parse
ValidateBegin ==
    /\ ppc \in {"idle", "done"}
    /\ calls < MaxCalls
    /\ call' = "validate"
    /\ ParseEntry

\* what the call hands back: parse its elements (line 205), validate
\* self.errors (line 435)
Returned == IF call = "validate" THEN errors ELSE elements

\* the line the for loop of parse is at, stripped (line 193)
CurrentLine == Strip(lines[line_num + 1])
AtLine == ppc = "lines" /\ line_num < Len(lines)
Skipped(line) == line = <<>> \/ StartsWith(line, "#")

\* lines 194-196: an empty line or a comment
SkipLine ==
    /\ AtLine
    /\ Skipped(CurrentLine)
    /\ line_num' = line_num + 1
    /\ UNCHANGED <<text, typed, call, calls, ppc, errors, elements, lines, tokens, i, line_elements>>
    /\ UNCHANGED <<bvars, svars>>

\* lines 211-217 and 200: a command line
CommandLine ==
    /\ AtLine
    /\ ~Skipped(CurrentLine)
    /\ CommandMatch(CurrentLine) # None
    /\ elements' = Append(elements,
                          ParsedCommand(Lower(CommandMatch(CurrentLine)[1][1]),
                                        Strip(CommandMatch(CurrentLine)[1][2])))
    /\ line_num' = line_num + 1
    /\ UNCHANGED <<text, typed, call, calls, ppc, errors, lines, tokens, i, line_elements>>
    /\ UNCHANGED <<bvars, svars>>

\* lines 219-222 and 200: a line that is a barline literal
BarlineLine ==
    /\ AtLine
    /\ ~Skipped(CurrentLine)
    /\ CommandMatch(CurrentLine) = None
    /\ BARLINE_PATTERNS(CurrentLine) # None
    /\ elements' = Append(elements, ParsedBarline(BARLINE_PATTERNS(CurrentLine)[1]))
    /\ line_num' = line_num + 1
    /\ UNCHANGED <<text, typed, call, calls, ppc, errors, lines, tokens, i, line_elements>>
    /\ UNCHANGED <<bvars, svars>>

\* lines 224-228: any other line is tokenized
TokenizeLine ==
    /\ AtLine
    /\ ~Skipped(CurrentLine)
    /\ CommandMatch(CurrentLine) = None
    /\ BARLINE_PATTERNS(CurrentLine) = None
    /\ tokens' = Tokenize(CurrentLine)
    /\ i' = 0
    /\ line_elements' = <<>>
    /\ ppc' = "tokens"
    /\ UNCHANGED <<text, typed, call, calls, errors, elements, lines, line_num>>
    /\ UNCHANGED <<bvars, svars>>

\* mutant: a token that gives no element is reported as a CommandParseError
TokenIterReportsUnknown ==
    /\ ppc = "tokens"
    /\ i < Len(tokens)
    /\ LET r == TokenStep(tokens, i) IN
       IF r.raised
       THEN /\ ppc' = "raised"
            /\ UNCHANGED <<i, line_elements, errors>>
       ELSE /\ line_elements' = line_elements \o r.elems
            /\ i' = i + r.consumed
            /\ errors' = IF r.elems = <<>>
                         THEN Append(errors, [line |-> line_num + 1, token |-> PyIndex(tokens, i)])
                         ELSE errors
            /\ UNCHANGED ppc
    /\ UNCHANGED <<text, typed, call, calls, elements, lines, line_num, tokens>>
    /\ UNCHANGED <<bvars, svars>>

\* lines 229-269: one iteration of the while loop; an exception that is not a
\* CommandParseError leaves parse
TokenIter ==
    /\ ppc = "tokens"
    /\ i < Len(tokens)
    /\ LET r == TokenStep(tokens, i) IN
       IF r.raised
       THEN /\ ppc' = "raised"
            /\ UNCHANGED <<i, line_elements>>
       ELSE /\ line_elements' = line_elements \o r.elems
            /\ i' = i + r.consumed
            /\ UNCHANGED ppc
    /\ UNCHANGED <<text, typed, call, calls, errors, elements, lines, line_num, tokens>>
    /\ UNCHANGED <<bvars, svars>>

\* lines 271 and 200: _parse_line returns, parse extends its list
LineEnd ==
    /\ ppc = "tokens"
    /\ i >= Len(tokens)
    /\ elements' = elements \o line_elements
    /\ line_num' = line_num + 1
    /\ ppc' = "lines"
    /\ UNCHANGED <<text, typed, call, calls, errors, lines, tokens, i, line_elements>>
    /\ UNCHANGED <<bvars, svars>>

\* line 205
ParseReturn ==
    /\ ppc = "lines"
    /\ line_num = Len(lines)
    /\ ppc' = "done"
    /\ UNCHANGED <<text, typed, call, calls, errors, elements, lines, line_num, tokens, i, line_elements>>
    /\ UNCHANGED <<bvars, svars>>

(***************************************************************************)
(* parse as a function of its text: what one call returns.                 *)
(***************************************************************************)
\* the while loop of _parse_line from index idx on (lines 229-271)
RECURSIVE ParseTokens(_, _)
ParseTokens(toks, idx) ==
    IF idx >= Len(toks) \/ TokenStep(toks, idx).raised THEN <<>>
    ELSE TokenStep(toks, idx).elems
             \o ParseTokens(toks, idx + TokenStep(toks, idx).consumed)

\* _parse_line on a stripped line (lines 207-271)
ParseLine(line) ==
    IF CommandMatch(line) # None
    THEN <<ParsedCommand(Lower(CommandMatch(line)[1][1]), Strip(CommandMatch(line)[1][2]))>>
    ELSE IF BARLINE_PATTERNS(line) # None
    THEN <<ParsedBarline(BARLINE_PATTERNS(line)[1])>>
    ELSE ParseTokens(Tokenize(line), 0)

\* the for loop of parse over the lines (lines 192-200)
RECURSIVE ParseLines(_)
ParseLines(ls) ==
    IF ls = <<>> THEN <<>>
    ELSE (IF Skipped(Strip(Head(ls))) THEN <<>> ELSE ParseLine(Strip(Head(ls))))
             \o ParseLines(Tail(ls))

\* parse(text) (lines 186-205)
Parse(txt) == ParseLines(SplitOn(Strip(txt), "\n"))

(***************************************************************************)
(* The Score wrapper (score.py) and add_elements_to_score.  `part` is the  *)
(* content of the score's first part: what deepcopy(self._score) saves and *)
(* what undo and redo restore.  Before any build the executor's caller     *)
(* holds an empty Score().                                                 *)
(***************************************************************************)
MaxScore == 3       \* elements of a score built for editing
MaxAdded == 2       \* elements handed to one add_elements_to_score call
MaxEdits == 2       \* transpose calls on one score

\* Score._max_undo
max_undo == 50

SInit ==
    /\ undo_stack = <<>>
    /\ redo_stack = <<>>
    /\ edits = 0
    /\ ret = NoReturn
    /\ apc = "idle"
    /\ added = <<>>
    /\ current_offset = 0

\* target_part.recurse().notes: the Notes and Chords of the part and of its
\* measures, each with the offset it has in its own container
RECURSIVE RecurseNotes(_)
RecurseNotes(items) ==
    IF items = <<>> THEN <<>>
    ELSE LET it == Head(items) IN
         (IF it.obj.cls = "Measure" THEN Notes(it.obj.items)
          ELSE IF it.obj.cls \in {"Note", "Chord"} THEN <<it>>
          ELSE <<>>) \o RecurseNotes(Tail(items))

\* lines 169-177: last_offset
LastOffset(p) ==
    IF p # <<>>
    THEN IF RecurseNotes(p) # <<>> THEN HighestTime(RecurseNotes(p)) ELSE 0
    ELSE 0

\* the elements one add call may be handed
AddElems == {NoteQ, RestH, ParsedBarline("single"), CmdClef, CmdClefBad}

\* the elements of the scores built for editing
ScoreElems == {NoteQ, RestH}

\* bar.Barline(type)
Barline(type) == M21("Barline", 0, "none", None, <<type>>)

\* lines 154-179: the call up to the loop, on the score of the last build or on
\* an empty Score(); the model makes one call per score
AddBegin(append) ==
    /\ bpc \in {"idle", "done"}
    /\ apc = "idle"
    /\ apc' = "adding"
    /\ added' = <<>>
    /\ part' = IF append THEN part ELSE <<>>
    /\ current_offset' = LastOffset(IF append THEN part ELSE <<>>)
    /\ UNCHANGED <<undo_stack, redo_stack, edits, ret>>
    /\ UNCHANGED <<pending_tie, bpc, input, current_measure, measure_offset,
                   beats_per_measure, current_time_sig>>
    /\ UNCHANGED pvars

\* The object one iteration of the loop inserts, or None
AddedObject(elem, pending) ==
    CASE elem.kind = "Command" -> CreateCommandElement(elem)
      [] elem.kind = "Barline" -> Some(Barline(CreateBarline(elem)))
      [] OTHER -> CreateMusicElement(elem, pending)

\* mutant: an inserted barline advances the offset by a quarter
AdvanceBarlineToo(elem, obj) == IF elem.kind = "Barline" THEN Unit ELSE obj.ql

\* current_offset += m21_elem.duration.quarterLength; a barline `continue`s
Advance(elem, obj) == IF elem.kind = "Barline" THEN 0 ELSE obj.ql

\* lines 181-197: one iteration of the loop
AddStep(elem) ==
    /\ apc = "adding"
    /\ Len(added) < MaxAdded
    /\ added' = Append(added, elem)
    /\ pending_tie' = IF elem.kind \in {"Note", "Rest", "Chord"}
                      THEN PendingAfter(elem, pending_tie) ELSE pending_tie
    /\ LET m21_elem == AddedObject(elem, pending_tie) IN
       IF ObjTruthy(m21_elem)
       THEN /\ part' = StreamInsert(part, current_offset, m21_elem[1])
            /\ current_offset' = current_offset + Advance(elem, m21_elem[1])
       ELSE UNCHANGED <<part, current_offset>>
    /\ UNCHANGED <<undo_stack, redo_stack, edits, ret, apc>>
    /\ UNCHANGED <<bpc, input, current_measure, measure_offset,
                   beats_per_measure, current_time_sig>>
    /\ UNCHANGED pvars

\* line 200: score._push_undo_state() - Score has no such method, the call
\* raises AttributeError
AddEnd ==
    /\ apc = "adding"
    /\ apc' = "raised"
    /\ UNCHANGED <<undo_stack, redo_stack, edits, ret, added, current_offset>>
    /\ UNCHANGED bvars
    /\ UNCHANGED pvars

\* mutant: undo pushes nothing on the redo stack
UndoForgets ==
    /\ bpc \in {"idle", "done"}
    /\ apc # "adding"
    /\ IF undo_stack = <<>>
       THEN /\ ret' = Return("undo", FALSE)
            /\ UNCHANGED <<part, undo_stack, redo_stack>>
       ELSE /\ part' = Last(undo_stack)
            /\ undo_stack' = SubSeq(undo_stack, 1, Len(undo_stack) - 1)
            /\ ret' = Return("undo", TRUE)
            /\ UNCHANGED redo_stack
    /\ UNCHANGED <<edits, apc, added, current_offset>>
    /\ UNCHANGED <<pending_tie, bpc, input, current_measure, measure_offset,
                   beats_per_measure, current_time_sig>>
    /\ UNCHANGED pvars

\* Score.undo
Undo ==
    /\ bpc \in {"idle", "done"}
    /\ apc # "adding"
    /\ IF undo_stack = <<>>
       THEN /\ ret' = Return("undo", FALSE)
            /\ UNCHANGED <<part, undo_stack, redo_stack>>
       ELSE /\ redo_stack' = Append(redo_stack, part)
            /\ part' = Last(undo_stack)
            /\ undo_stack' = SubSeq(undo_stack, 1, Len(undo_stack) - 1)
            /\ ret' = Return("undo", TRUE)
    /\ UNCHANGED <<edits, apc, added, current_offset>>
    /\ UNCHANGED <<pending_tie, bpc, input, current_measure, measure_offset,
                   beats_per_measure, current_time_sig>>
    /\ UNCHANGED pvars

\* Score.redo
Redo ==
    /\ bpc \in {"idle", "done"}
    /\ apc # "adding"
    /\ IF redo_stack = <<>>
       THEN /\ ret' = Return("redo", FALSE)
            /\ UNCHANGED <<part, undo_stack, redo_stack>>
       ELSE /\ undo_stack' = Append(undo_stack, part)
            /\ part' = Last(redo_stack)
            /\ redo_stack' = SubSeq(redo_stack, 1, Len(redo_stack) - 1)
            /\ ret' = Return("redo", TRUE)
    /\ UNCHANGED <<edits, apc, added, current_offset>>
    /\ UNCHANGED <<pending_tie, bpc, input, current_measure, measure_offset,
                   beats_per_measure, current_time_sig>>
    /\ UNCHANGED pvars

\* the twelve pitch classes music21 spells a transposition by semitones with
PitchNames ==
    << <<"C">>, <<"C","#">>, <<"D">>, <<"D","#">>, <<"E">>, <<"F">>,
       <<"F","#">>, <<"G">>, <<"G","#">>, <<"A">>, <<"A","#">>, <<"B">> >>

OctaveDigits == <<"0","1","2","3","4","5","6","7","8","9">>

\* Pitch.transpose(semitones) on the natural and sharp pitches of octaves 0-8
TransposePitch(p, semitones) ==
    LET name == SubSeq(p, 1, Len(p) - 1)
        k == CHOOSE j \in 1..12 : PitchNames[j] = <<UpperChar(name[1])>> \o Tail(name)
        n == (k - 1) + semitones
        octave == IndexIn(p[Len(p)], OctaveDigits) - 1 + (n \div 12)
    IN  PitchNames[(n % 12) + 1] \o <<OctaveDigits[octave + 1]>>

RECURSIVE TransposeItems(_, _)
\* Stream.transpose(semitones): a copy with every Note and Chord moved
TransposeItems(items, semitones) ==
    IF items = <<>> THEN <<>>
    ELSE LET it == Head(items)
             o == it.obj
             moved ==
                 IF o.cls = "Measure"
                 THEN Measure(o.number, TransposeItems(o.items, semitones), o.rightBarline)
                 ELSE IF o.cls \in {"Note", "Chord"}
                 THEN [o EXCEPT !.data =
                          [j \in 1..Len(o.data) |-> TransposePitch(o.data[j], semitones)]]
                 ELSE o
         IN  <<[offset |-> it.offset, obj |-> moved]>> \o TransposeItems(Tail(items), semitones)

\* Score._save_undo_state on a score of content p: <<undo stack, redo stack>>
SaveUndoState(stack, p) ==
    LET pushed == Append(stack, p)
    IN  <<IF Len(pushed) > max_undo THEN Tail(pushed) ELSE pushed, <<>>>>

\* Score.transpose(2)
Transpose ==
    /\ bpc \in {"idle", "done"}
    /\ apc # "adding"
    /\ edits < MaxEdits
    /\ edits' = edits + 1
    /\ undo_stack' = SaveUndoState(undo_stack, part)[1]
    /\ redo_stack' = SaveUndoState(undo_stack, part)[2]
    /\ part' = TransposeItems(part, 2)
    /\ UNCHANGED <<ret, apc, added, current_offset>>
    /\ UNCHANGED <<pending_tie, bpc, input, current_measure, measure_offset,
                   beats_per_measure, current_time_sig>>
    /\ UNCHANGED pvars

Init == BInit /\ PInit /\ SInit

\* the executor
Next ==
    \/ BeginBuild
    \/ \E elem \in Elements : ProcessCommand(elem)
    \/ \E elem \in Elements : ProcessBarline(elem)
    \/ \E elem \in Elements : ProcessMusic(elem)
    \/ FinishBuild

Spec == Init /\ [][Next]_vars

\* the steps of a parse under way
ParseSteps ==
    \/ SkipLine
    \/ CommandLine
    \/ BarlineLine
    \/ TokenizeLine
    \/ TokenIter
    \/ LineEnd
    \/ ParseReturn

\* the parser: calls of parse
ParserNext ==
    \/ \E c \in Chunks : TypeChunk(c)
    \/ ParseBegin
    \/ ParseSteps

SpecParser == Init /\ [][ParserNext]_vars

\* one parser instance on which parse and validate are called in any order
ValidateNext ==
    \/ \E c \in ValidateChunks : TypeChunk(c)
    \/ ParseBegin
    \/ ParseAgain
    \/ ValidateBegin
    \/ ParseSteps

SpecValidate == Init /\ [][ValidateNext]_vars

\* a score of at most MaxScore notes and rests is built
ScoreStep == \E elem \in ScoreElems : Len(input) < MaxScore /\ ProcessMusic(elem)

\* add_elements_to_score on an empty Score() or on a built score; undo after it
AddNext ==
    \/ BeginBuild
    \/ ScoreStep
    \/ FinishBuild
    \/ \E append \in BOOLEAN : AddBegin(append)
    \/ \E elem \in AddElems : AddStep(elem)
    \/ AddEnd
    \/ Undo

SpecAdd == Init /\ [][AddNext]_vars

\* the editing calls of a Score: transpose, undo and redo
ScoreNext ==
    \/ BeginBuild
    \/ ScoreStep
    \/ FinishBuild
    \/ Transpose
    \/ Undo
    \/ Redo

SpecScore == Init /\ [][ScoreNext]_vars

\* one build on an executor that was never used
FreshNext ==
    \/ bpc = "idle" /\ BeginBuild
    \/ \E elem \in Elements : ProcessCommand(elem)
    \/ \E elem \in Elements : ProcessBarline(elem)
    \/ \E elem \in Elements : ProcessMusic(elem)
    \/ FinishBuild

SpecFresh == Init /\ [][FreshNext]_vars

(***************************************************************************)
(* Helpers of the properties.                                              *)
(***************************************************************************)
RECURSIVE SumQl(_)
SumQl(items) == IF items = <<>> THEN 0 ELSE Head(items).obj.ql + SumQl(Tail(items))

\* sum of the durations of the events of a measure
SumDur(m) == SumQl(EventsOf(m))

\* the measures built so far: those of the part, then the open one while building
RECURSIVE ObjsOf(_)
ObjsOf(items) == IF items = <<>> THEN <<>> ELSE <<Head(items).obj>> \o ObjsOf(Tail(items))

ClosedMeasures == ObjsOf(MeasuresOf(part))
AllMeasures == IF bpc = "building" THEN Append(ClosedMeasures, current_measure)
               ELSE ClosedMeasures

IsMusic(elem) == elem.kind \in {"Note", "Rest", "Chord"}

\* a step of the for loop that processed a Note, a Rest or a Chord
MusicStep == bpc = "building" /\ bpc' = "building" /\ Len(input') = Len(input) + 1
             /\ IsMusic(Last(input'))
BarlineStep == bpc = "building" /\ bpc' = "building" /\ Len(input') = Len(input) + 1
               /\ Last(input').kind = "Barline"
CommandStep == bpc = "building" /\ bpc' = "building" /\ Len(input') = Len(input) + 1
               /\ Last(input').kind = "Command"

FiveQuarters == <<NoteQ, NoteQ, NoteQ, NoteQ, NoteQ>>

\* the onsets of the events of a measure
RECURSIVE Onsets(_)
Onsets(items) == IF items = <<>> THEN <<>> ELSE <<Head(items).offset>> \o Onsets(Tail(items))

(***************************************************************************)
(* C2: in a structural build an event of length L goes into the current    *)
(* measure at the running offset when offset + L <= beats_per_measure (an  *)
(* exact fill keeps the measure open); otherwise the current measure is    *)
(* closed and the event is placed whole at offset 0 of a new measure; the  *)
(* offset then advances by L.  Five quarter notes give measure 1 with      *)
(* notes at 0,1,2,3 and measure 2 with one note at 0.                      *)
(***************************************************************************)
C2_PlacementStep ==
    MusicStep =>
        LET elem == Last(input')
            L == QuarterLength(elem.duration, elem.dotted)
            placed == Last(current_measure'.items)
        IN  /\ placed.obj.cls = elem.kind
            /\ placed.obj.ql = L
            /\ IF measure_offset + L <= beats_per_measure
               THEN /\ part' = part
                    /\ current_measure'.number = current_measure.number
                    /\ current_measure'.items = Append(current_measure.items, placed)
                    /\ placed.offset = measure_offset
                    /\ measure_offset' = measure_offset + L
               ELSE /\ MeasuresOf(part') = Append(MeasuresOf(part), Last(part'))
                    /\ Last(part').obj = current_measure
                    /\ current_measure'.number = current_measure.number + 1
                    /\ current_measure'.items = <<placed>>
                    /\ placed.offset = 0
                    /\ measure_offset' = L

C2_FiveQuarters ==
    (bpc = "done" /\ input = FiveQuarters) =>
        /\ Len(ClosedMeasures) = 2
        /\ Onsets(EventsOf(ClosedMeasures[1])) = <<0, Unit, 2 * Unit, 3 * Unit>>
        /\ Onsets(EventsOf(ClosedMeasures[2])) = <<0>>

C2_Placement == [][C2_PlacementStep]_vars /\ [](C2_FiveQuarters)

C2_Witness == bpc = "done" /\ input = FiveQuarters /\ Len(ClosedMeasures) = 2

\* no time command of the input was interpreted: the capacity is the default 4.0
NoTimeChange == \A k \in 1..Len(input) :
    ~(input[k].kind = "Command" /\ CreateCommandElement(input[k]) # None
      /\ CreateCommandElement(input[k])[1].cls = "TimeSignature")

(***************************************************************************)
(* C3 as claimed: in every measure of a structural build the durations of  *)
(* the events sum to at most the capacity (here the default 4.0, no time   *)
(* command having changed it).                                             *)
(***************************************************************************)
C3_SumWithinCapacity ==
    (bpc # "idle" /\ NoTimeChange) =>
        \A k \in 1..Len(AllMeasures) : SumDur(AllMeasures[k]) <= 4 * Unit

(***************************************************************************)
(* C3 amended: right after an event is placed, the durations of the events *)
(* of its measure sum to the running offset, and that is at most           *)
(* beats_per_measure unless the event is the only event of its measure;    *)
(* and while the capacity is the default, every measure sums to at most    *)
(* 4.0 unless it holds a single event.                                     *)
(***************************************************************************)
C3_SumWithinCapacityOrSingle ==
    /\ (bpc = "building" /\ input # <<>> /\ IsMusic(Last(input))) =>
          /\ SumDur(current_measure) = measure_offset
          /\ \/ measure_offset <= beats_per_measure
             \/ Len(EventsOf(current_measure)) = 1
    /\ (bpc # "idle" /\ NoTimeChange) =>
          \A k \in 1..Len(AllMeasures) :
              \/ SumDur(AllMeasures[k]) <= 4 * Unit
              \/ Len(EventsOf(AllMeasures[k])) = 1

\* a measure filled exactly, followed by a measure of one over-long event
C3_Witness ==
    /\ bpc = "done"
    /\ input = <<RestH, RestH, NoteLong>>
    /\ Len(ClosedMeasures) = 2
    /\ SumDur(ClosedMeasures[1]) = 4 * Unit
    /\ SumDur(ClosedMeasures[2]) > 4 * Unit

(***************************************************************************)
(* C4 as claimed: at the end of a structural build the open measure is     *)
(* appended to the part iff it holds at least one event (Note, Rest or     *)
(* Chord) or at least one clef/key/time/tempo marking.                     *)
(***************************************************************************)
FinalMeasureAppended ==
    ClosedMeasures # <<>> /\ Last(ClosedMeasures).number = current_measure.number

C4_FinalMeasureIffContent ==
    bpc = "done" => (FinalMeasureAppended <=> current_measure.items # <<>>)

\* the tie marks of the Notes of the measures built so far, in order
RECURSIVE TieMarksOfItems(_)
TieMarksOfItems(items) ==
    IF items = <<>> THEN <<>>
    ELSE (IF Head(items).obj.cls = "Note" THEN <<Head(items).obj.tie>> ELSE <<>>)
         \o TieMarksOfItems(Tail(items))

RECURSIVE TieMarksOfMeasures(_)
TieMarksOfMeasures(ms) ==
    IF ms = <<>> THEN <<>>
    ELSE TieMarksOfItems(Head(ms).items) \o TieMarksOfMeasures(Tail(ms))

TieMarks == TieMarksOfMeasures(AllMeasures)

(***************************************************************************)
(* C5: a Note with tied=true is marked tie-start and becomes the pending   *)
(* tie; a Note with tied=false is marked tie-stop and clears the pending   *)
(* tie when one is pending, whatever its pitch, and gets no mark when none *)
(* is pending; Rests, Chords, Barlines and Commands leave the pending tie  *)
(* alone.  [A tied, B, C] gives start, stop, no mark, nothing pending.     *)
(***************************************************************************)
C5_TieStep ==
    /\ MusicStep /\ Last(input').kind = "Note" =>
          LET n == Last(input')
              placed == Last(current_measure'.items).obj
          IN  /\ placed.data = <<n.pitch>>
              /\ n.tied => placed.tie = "start" /\ pending_tie' = Some(n.pitch)
              /\ (~n.tied /\ pending_tie # None) => placed.tie = "stop" /\ pending_tie' = None
              /\ (~n.tied /\ pending_tie = None) => placed.tie = "none" /\ pending_tie' = None
    /\ (MusicStep /\ Last(input').kind # "Note") \/ BarlineStep \/ CommandStep =>
          pending_tie' = pending_tie

C5_Example ==
    (bpc = "building" /\ input = <<NoteTied, NoteQ, NoteQ>>) =>
        TieMarks = <<"start", "stop", "none">> /\ pending_tie = None

C5_TieSequencing == [][C5_TieStep]_vars /\ [](C5_Example)

\* a tie-start, then a Rest, then a Note of another pitch that stops the tie
C5_Witness ==
    /\ bpc = "building"
    /\ input = <<NoteTied, RestH, NoteQ>>
    /\ TieMarks = <<"start", "stop">>
    /\ pending_tie = None

\* the tie marks a fresh executor (pending tie None) gives the same element list
RECURSIVE FreshTieMarks(_, _)
FreshTieMarks(list, pending) ==
    IF list = <<>> THEN <<>>
    ELSE IF Head(list).kind = "Note"
         THEN <<TieOf(Head(list), pending)[1]>>
              \o FreshTieMarks(Tail(list), TieOf(Head(list), pending)[2])
         ELSE FreshTieMarks(Tail(list), pending)

(***************************************************************************)
(* C6 as claimed: the tie marks of a build on an executor that was used    *)
(* before equal those of the same build on a fresh executor; no pending    *)
(* tie carries over into a call.                                           *)
(***************************************************************************)
C6_NoTieCarryOver ==
    bpc = "building" =>
        /\ TieMarks = FreshTieMarks(input, None)
        /\ input = <<>> => pending_tie = None

\* the bar length of the time signature "N/M", N and M one digit: N * 4/M quarters
DigitValue(c) == CHOOSE n \in 0..9 : <<"0","1","2","3","4","5","6","7","8","9">>[n + 1] = c
BarLength(value) == (DigitValue(value[1]) * 4 * Unit) \div DigitValue(value[3])

(***************************************************************************)
(* C7 as claimed: an interpreted time command sets beats_per_measure to    *)
(* the capacity of its time signature, as 4.0 is that of 4/4: "4/4" gives  *)
(* 4.0 and "3/4" gives 3.0.                                                *)
(***************************************************************************)
C7_TimeSetsCapacity ==
    (bpc = "building" /\ input # <<>> /\ Last(input).kind = "Command"
     /\ CreateCommandElement(Last(input)) # None
     /\ CreateCommandElement(Last(input))[1].cls = "TimeSignature") =>
        beats_per_measure = BarLength(Strip(Last(input).value))

(***************************************************************************)
(* C8: every Barline closes the current measure, empty or not: the measure *)
(* is appended to the part, marked with the style when that is double or   *)
(* final, and a new empty measure with the next number and offset 0 is     *)
(* opened.  The measures of the part are numbered consecutively from 1.    *)
(***************************************************************************)
C8_BarlineStep ==
    BarlineStep =>
        LET style == Last(input').style
            closed == Last(part').obj
        IN  /\ MeasuresOf(part') = Append(MeasuresOf(part), Last(part'))
            /\ closed.cls = "Measure"
            /\ closed.number = current_measure.number
            /\ closed.items = current_measure.items
            /\ closed.rightBarline = (IF style \in {"double", "final"} THEN style ELSE "none")
            /\ current_measure' = NewMeasure(current_measure.number + 1)
            /\ measure_offset' = 0

C8_Numbering ==
    /\ \A k \in 1..Len(ClosedMeasures) : ClosedMeasures[k].number = k
    /\ bpc = "building" => current_measure.number = Len(ClosedMeasures) + 1

C8_BarlineCloses == [][C8_BarlineStep]_vars /\ [](C8_Numbering)

\* a double barline on an empty measure, right after a barline on a partly filled one
C8_Witness ==
    /\ bpc = "building"
    /\ input = <<RestH, ParsedBarline("single"), ParsedBarline("double")>>
    /\ Len(ClosedMeasures) = 2
    /\ ClosedMeasures[1].items # <<>>
    /\ ClosedMeasures[2].items = <<>>
    /\ ClosedMeasures[2].rightBarline = "double"
    /\ current_measure.number = 3

(***************************************************************************)
(* Grammar of the claims about the parser, stated on tokens.               *)
(***************************************************************************)
\* letter A-G in either case, 0 to 2 of '#'/'b', one digit
PitchGrammar(tok) ==
    /\ Len(tok) >= 2 /\ Len(tok) <= 4
    /\ UpperChar(tok[1]) \in {"A","B","C","D","E","F","G"}
    /\ \A k \in 2..(Len(tok) - 1) : tok[k] = "#" \/ tok[k] = "b"
    /\ tok[Len(tok)] \in Digits

\* one of w h q e s t in either case, then an optional '.'
DurationGrammar(tok) ==
    \/ Len(tok) = 1 /\ LowerChar(tok[1]) \in DurationCodes
    \/ Len(tok) = 2 /\ LowerChar(tok[1]) \in DurationCodes /\ tok[2] = "."

\* a quoted lyric: starts with a quote, ends with a quote, no quote in between
QuotedLyric(tok) ==
    /\ Len(tok) >= 2
    /\ tok[1] = "\"" /\ tok[Len(tok)] = "\""
    /\ \A k \in 2..(Len(tok) - 1) : tok[k] # "\""

\* the while loop of _parse_line is about to look at a token
AtToken == ppc = "tokens" /\ i < Len(tokens)
Token == tokens[i + 1]

\* the Note the claims expect of the pitch `pitch` read at index i, and the tokens used
ExpectedDurAt(k) == k < Len(tokens) /\ DurationGrammar(tokens[k + 1])
ExpectedLyricAt(k) == k < Len(tokens) /\ QuotedLyric(tokens[k + 1])
ExpectedLyricIndex == IF ExpectedDurAt(i + 1) THEN i + 2 ELSE i + 1
ExpectedUsed == 1 + (IF ExpectedDurAt(i + 1) THEN 1 ELSE 0)
                  + (IF ExpectedLyricAt(ExpectedLyricIndex) THEN 1 ELSE 0)
ExpectedNote(pitch, tied) ==
    ParsedNote(Upper(pitch),
               IF ExpectedDurAt(i + 1) THEN LowerChar(tokens[i + 2][1]) ELSE "q",
               ExpectedDurAt(i + 1) /\ Len(tokens[i + 2]) = 2,
               IF ExpectedLyricAt(ExpectedLyricIndex)
               THEN Some(SubSeq(tokens[ExpectedLyricIndex + 1], 2,
                                Len(tokens[ExpectedLyricIndex + 1]) - 1))
               ELSE None,
               tied)

(***************************************************************************)
(* C1: parse returns for every text without raising; a problem on one line *)
(* does not stop the parse: every line is visited, and a later line that   *)
(* is a barline still gives its Barline.                                   *)
(***************************************************************************)
BarlineLines == {k \in 1..Len(lines) : Strip(lines[k]) = <<"|">>}
BarlineElements == {k \in 1..Len(elements) : elements[k] = ParsedBarline("single")}

C9_NoteStep ==
    (AtToken /\ PitchGrammar(Token)) =>
        /\ line_elements' = Append(line_elements, ExpectedNote(Token, FALSE))
        /\ i' = i + ExpectedUsed

C9_NoteFromPitchToken == [][C9_NoteStep]_vars

\* the same, but for the steps whose lyric candidate opens with a quote and is
\* no quoted lyric: pitch, duration, dotted flag and consumption are as claimed
LyricCandidateMalformed ==
    /\ ExpectedLyricIndex < Len(tokens)
    /\ StartsWith(tokens[ExpectedLyricIndex + 1], "\"")
    /\ ~QuotedLyric(tokens[ExpectedLyricIndex + 1])

C9_NoteFromPitchTokenProperLyric ==
    [][(~LyricCandidateMalformed) => C9_NoteStep]_vars

(***************************************************************************)
(* C10 as claimed: a pitch immediately followed by '-' yields a Note with  *)
(* the '-' stripped from its pitch and tied=true, with the usual duration  *)
(* and lyric lookahead; a pitch token without the suffix yields tied=false.*)
(***************************************************************************)
TiedPitchGrammar(tok) ==
    Len(tok) >= 3 /\ tok[Len(tok)] = "-" /\ PitchGrammar(SubSeq(tok, 1, Len(tok) - 1))

C10_TieStep ==
    /\ (AtToken /\ TiedPitchGrammar(Token)) =>
          /\ Len(line_elements') = Len(line_elements) + 1
          /\ Last(line_elements').kind = "Note"
          /\ Last(line_elements').pitch = Upper(SubSeq(Token, 1, Len(Token) - 1))
          /\ Last(line_elements').tied
    /\ (AtToken /\ PitchGrammar(Token)) =>
          /\ Len(line_elements') = Len(line_elements) + 1
          /\ Last(line_elements').kind = "Note"
          /\ ~Last(line_elements').tied

C10_TieSuffix == [][C10_TieStep]_vars

(***************************************************************************)
(* C11: a token case-insensitively equal to 'r' yields exactly one Rest.   *)
(* When the next token of the line is a duration token both are consumed   *)
(* and the Rest takes its duration and dotted flag; otherwise the Rest is  *)
(* Quarter and not dotted, only the 'r' is consumed and the token after it *)
(* (if there is one) is the next the loop looks at.                        *)
(***************************************************************************)
RestKeyword(tok) == Lower(tok) = <<"r">>

ExpectedRest ==
    IF ExpectedDurAt(i + 1)
    THEN ParsedRest(LowerChar(tokens[i + 2][1]), Len(tokens[i + 2]) = 2)
    ELSE ParsedRest("q", FALSE)

C11_RestStep ==
    (AtToken /\ RestKeyword(Token)) =>
        /\ line_elements' = Append(line_elements, ExpectedRest)
        /\ IF ExpectedDurAt(i + 1) THEN i' = i + 2
           ELSE IF i + 1 < Len(tokens) THEN i' = i + 1
           ELSE i' >= Len(tokens)

C11_RestToken == [][C11_RestStep]_vars

\* the line R H. has given a dotted half rest and both tokens are consumed
C11_Witness ==
    /\ ppc = "tokens"
    /\ tokens = <<<<"R">>, <<"H", ".">>>>
    /\ i = 2
    /\ line_elements = <<ParsedRest("h", TRUE)>>

(***************************************************************************)
(* C12 as claimed: a token case-insensitively equal to 'rest' is a rest    *)
(* like 'r': it yields one Rest with the duration and dotted flag of the   *)
(* following duration token (default Quarter, not dotted).                 *)
(***************************************************************************)
RestWord(tok) == Lower(tok) = <<"r", "e", "s", "t">>

C12_RestWordStep ==
    (AtToken /\ RestWord(Token)) =>
        /\ line_elements' = Append(line_elements, ExpectedRest)
        /\ IF ExpectedDurAt(i + 1) THEN i' = i + 2
           ELSE IF i + 1 < Len(tokens) THEN i' = i + 1
           ELSE i' >= Len(tokens)

C12_RestWord == [][C12_RestWordStep]_vars

(***************************************************************************)
(* C13 as claimed: a bracketed group [p1 p2 ...] yields exactly one Chord  *)
(* whose notes are the entries of the group that match the pitch grammar,  *)
(* upper-cased and in their order, the other entries being dropped; its    *)
(* duration, dotted flag and lyric come from the following duration token  *)
(* and quoted-lyric token when present (else Quarter, not dotted, none).   *)
(* When no entry is a pitch, no element is emitted.                        *)
(***************************************************************************)
BracketGroup(tok) == Len(tok) >= 2 /\ tok[1] = "[" /\ tok[Len(tok)] = "]"

GroupPitches(tok) ==
    LET entries == SelectSeq(SplitWs(SubSeq(tok, 2, Len(tok) - 1)), PitchGrammar)
    IN  [k \in 1..Len(entries) |-> Upper(entries[k])]

ExpectedChord(tok) ==
    ParsedChord(GroupPitches(tok),
                IF ExpectedDurAt(i + 1) THEN LowerChar(tokens[i + 2][1]) ELSE "q",
                ExpectedDurAt(i + 1) /\ Len(tokens[i + 2]) = 2,
                IF ExpectedLyricAt(ExpectedLyricIndex)
                THEN Some(SubSeq(tokens[ExpectedLyricIndex + 1], 2,
                                 Len(tokens[ExpectedLyricIndex + 1]) - 1))
                ELSE None)

C13_ChordStep ==
    (AtToken /\ BracketGroup(Token)) =>
        IF GroupPitches(Token) = <<>>
        THEN line_elements' = line_elements
        ELSE /\ line_elements' = Append(line_elements, ExpectedChord(Token))
             /\ i' = i + ExpectedUsed

C13_ChordFromGroup == [][C13_ChordStep]_vars

\* the same for the steps whose lyric candidate is a quoted lyric or does not
\* open with a quote: notes, duration, dotted flag and consumption are as claimed
C13_ChordFromGroupProperLyric ==
    [][(~LyricCandidateMalformed) => C13_ChordStep]_vars

(***************************************************************************)
(* C14: a line matching ^(key|time|tempo|clef):\s*(.+)$, the keyword in    *)
(* any case, yields exactly one Command whose name is the keyword in lower *)
(* case and whose value is the remainder, trimmed, in its own case; the    *)
(* line is not tokenized and gives nothing else, whatever the remainder.   *)
(***************************************************************************)
Keywords == {<<"k","e","y">>, <<"t","i","m","e">>, <<"t","e","m","p","o">>, <<"c","l","e","f">>}

\* the position of the colon that ends the keyword of a command line, or 0
KeywordColon(line) ==
    IF \E k \in 1..(Len(line) - 1) : line[k] = ":" /\ Lower(SubSeq(line, 1, k - 1)) \in Keywords
    THEN CHOOSE k \in 1..(Len(line) - 1) :
             line[k] = ":" /\ Lower(SubSeq(line, 1, k - 1)) \in Keywords
    ELSE 0

C14_CommandStep ==
    (AtLine /\ KeywordColon(CurrentLine) > 0) =>
        LET k == KeywordColon(CurrentLine) IN
        /\ elements' = Append(elements,
                              ParsedCommand(Lower(SubSeq(CurrentLine, 1, k - 1)),
                                            Strip(SubSeq(CurrentLine, k + 1, Len(CurrentLine)))))
        /\ line_num' = line_num + 1
        /\ ppc' = "lines"
        /\ UNCHANGED <<tokens, line_elements>>

C14_CommandLine == [][C14_CommandStep]_vars

\* the line Key: C4 | has given the one Command key with value C4 |
C14_Witness ==
    /\ ppc = "done"
    /\ text = <<"K","e","y",":"," ","C","4"," ","|">>
    /\ elements = <<ParsedCommand(<<"k","e","y">>, <<"C","4"," ","|">>)>>

(***************************************************************************)
(* C15: a trimmed line that is exactly |, ||, ||| or measure, and likewise *)
(* a token equal to one of these inside a mixed line, yields exactly one   *)
(* Barline of style single, double, final, single respectively; the token  *)
(* of a mixed line consumes exactly itself.                                *)
(***************************************************************************)
BarlineLiterals == {<<"|">>, <<"|","|">>, <<"|","|","|">>, <<"m","e","a","s","u","r","e">>}

StyleOfLiteral(lit) ==
    IF lit = <<"|","|">> THEN "double"
    ELSE IF lit = <<"|","|","|">> THEN "final"
    ELSE "single"

C15_BarlineStep ==
    /\ (AtLine /\ CurrentLine \in BarlineLiterals) =>
          /\ elements' = Append(elements, ParsedBarline(StyleOfLiteral(CurrentLine)))
          /\ line_num' = line_num + 1
          /\ ppc' = "lines"
    /\ (AtToken /\ Token \in BarlineLiterals) =>
          /\ line_elements' = Append(line_elements, ParsedBarline(StyleOfLiteral(Token)))
          /\ i' = i + 1

C15_BarlineLiteral == [][C15_BarlineStep]_vars

\* the mixed line C4 || has given the Note and then one double Barline
C15_Witness ==
    /\ ppc = "done"
    /\ text = <<"C","4"," ","|","|">>
    /\ elements = <<ParsedNote(<<"C","4">>, "q", FALSE, None, FALSE), ParsedBarline("double")>>

(***************************************************************************)
(* C16: parse(text) is line-compositional: the elements it returns are the *)
(* concatenation, in line order, of what parse returns for each line on    *)
(* its own.  A line that is empty after trimming or starts with '#' gives  *)
(* no element and no diagnostic, and no lookahead crosses a line boundary. *)
(***************************************************************************)
\* the lines of a text: the runs between its newline characters
RECURSIVE TextLines(_)
TextLines(txt) ==
    IF \A k \in 1..Len(txt) : txt[k] # "\n" THEN <<txt>>
    ELSE LET n == CHOOSE k \in 1..Len(txt) :
                      txt[k] = "\n" /\ \A m \in 1..(k - 1) : txt[m] # "\n"
         IN  <<SubSeq(txt, 1, n - 1)>> \o TextLines(SubSeq(txt, n + 1, Len(txt)))

RECURSIVE ParsedLineByLine(_)
ParsedLineByLine(ls) ==
    IF ls = <<>> THEN <<>> ELSE Parse(Head(ls)) \o ParsedLineByLine(Tail(ls))

BlankOrComment(line) == Strip(line) = <<>> \/ Strip(line)[1] = "#"

C16_Step ==
    /\ ppc' = "done" =>
          /\ elements' = ParsedLineByLine(TextLines(text'))
          /\ \A k \in 1..Len(TextLines(text')) :
                 BlankOrComment(TextLines(text')[k]) => Parse(TextLines(text')[k]) = <<>>
    /\ (AtLine /\ BlankOrComment(CurrentLine)) => UNCHANGED <<elements, errors>>

C16_LineCompositional == [][C16_Step]_vars

\* C4 and H. on two lines: the Note of the first line is a plain quarter, the
\* duration on the next line is not its lookahead
C16_Witness ==
    /\ ppc = "done"
    /\ text = <<"C","4"," ","\n"," ","H",".">>
    /\ elements = <<ParsedNote(<<"C","4">>, "q", FALSE, None, FALSE)>>

(***************************************************************************)
(* C17: a token that is not a rest keyword, a chord group, a barline       *)
(* literal or a pitch produces no element and no diagnostic and consumes   *)
(* exactly one token, so the later tokens of the line still get parsed.    *)
(***************************************************************************)
UnknownToken(tok) ==
    /\ ~RestKeyword(tok)
    /\ ~RestWord(tok)
    /\ tok[1] # "["
    /\ tok \notin BarlineLiterals
    /\ ~PitchGrammar(tok)

C17_UnknownStep ==
    (AtToken /\ UnknownToken(Token)) =>
        /\ line_elements' = line_elements
        /\ errors' = errors
        /\ i' = i + 1
        /\ ppc' = "tokens"

C17_UnknownTokenSkipped == [][C17_UnknownStep]_vars

\* Z9 C4: the unknown Z9 gives nothing, the C4 after it gives its Note
C17_Witness ==
    /\ ppc = "done"
    /\ text = <<"Z","9"," ","C","4"," ">>
    /\ elements = <<ParsedNote(<<"C","4">>, "q", FALSE, None, FALSE)>>
    /\ errors = <<>>

(***************************************************************************)
(* C18 as claimed: the tokenizer splits a line at whitespace only outside  *)
(* double-quoted strings and bracket groups.  The tokens are non-empty and *)
(* in their left-to-right order, a quoted lyric with interior spaces is    *)
(* one token that keeps its quotes, and a bracket group with interior      *)
(* spaces is one token that ends at its ']'.                               *)
(***************************************************************************)
RECURSIVE Flatten(_)
Flatten(toks) == IF toks = <<>> THEN <<>> ELSE Head(toks) \o Flatten(Tail(toks))

NoSpaces(s) == SelectSeq(s, LAMBDA c : ~IsSpace(c))

\* line[a..b] lies inside the token tok
Inside(line, a, b, tok) ==
    \E k \in 0..(Len(tok) - (b - a + 1)) : SubSeq(tok, k + 1, k + b - a + 1) = SubSeq(line, a, b)

QuoteCountBefore(line, a) == Cardinality({k \in 1..(a - 1) : line[k] = "\""})

\* line[a..b] is a quoted string with a space inside: an opening quote, no
\* quote in between, the closing quote
QuotedWithSpace(line, a, b) ==
    /\ a < b /\ line[a] = "\"" /\ line[b] = "\""
    /\ QuoteCountBefore(line, a) % 2 = 0
    /\ \A k \in (a + 1)..(b - 1) : line[k] # "\""
    /\ \E k \in (a + 1)..(b - 1) : IsSpace(line[k])

\* line[a..b] is a bracket group: '[', no bracket in between, ']'
GroupSpan(line, a, b) ==
    /\ a < b /\ line[a] = "[" /\ line[b] = "]"
    /\ \A k \in (a + 1)..(b - 1) : line[k] # "[" /\ line[k] # "]"

TokensInOrder(line, toks) ==
    /\ \A k \in 1..Len(toks) : toks[k] # <<>>
    /\ NoSpaces(Flatten(toks)) = NoSpaces(line)
    /\ (\A k \in 1..Len(line) : line[k] \notin {"\"", "[", "]"}) => toks = SplitWs(line)

GroupsKept(line, toks) ==
    \A a, b \in 1..Len(line) :
        GroupSpan(line, a, b) => \E k \in 1..Len(toks) : toks[k] = SubSeq(line, a, b)

QuotedKept(line, toks) ==
    \A a, b \in 1..Len(line) :
        QuotedWithSpace(line, a, b) => \E k \in 1..Len(toks) : Inside(line, a, b, toks[k])

C18_TokenizeStep ==
    (AtLine /\ ppc' = "tokens") =>
        /\ TokensInOrder(CurrentLine, tokens')
        /\ GroupsKept(CurrentLine, tokens')
        /\ QuotedKept(CurrentLine, tokens')

C18_Tokenizer == [][C18_TokenizeStep]_vars

\* the same without the quoted strings that hold a bracket: these are the only
\* ones the tokenizer cuts
QuotedKeptNoBracket(line, toks) ==
    \A a, b \in 1..Len(line) :
        (QuotedWithSpace(line, a, b) /\ \A k \in a..b : line[k] # "[" /\ line[k] # "]")
            => \E k \in 1..Len(toks) : Inside(line, a, b, toks[k])

C18_TokenizerNoBracketInQuotes ==
    [][(AtLine /\ ppc' = "tokens") =>
          /\ TokensInOrder(CurrentLine, tokens')
          /\ GroupsKept(CurrentLine, tokens')
          /\ QuotedKeptNoBracket(CurrentLine, tokens')]_vars

(***************************************************************************)
(* C19: validate(text) returns exactly the diagnostics of the parse it     *)
(* runs: the list is empty when the call starts, whatever an earlier parse *)
(* or validate on the same parser left in it, it only grows during the     *)
(* call, and it is the value validate hands back.                          *)
(***************************************************************************)
CallStarts == calls' = calls + 1

C19_Step ==
    /\ CallStarts => errors' = <<>>
    /\ ~CallStarts =>
          /\ Len(errors') >= Len(errors)
          /\ SubSeq(errors', 1, Len(errors)) = errors
    /\ (ppc' = "done" /\ call' = "validate") =>
          Returned' = errors'

UninterpretableCommands == {CmdClefBad, CmdTempoBad, CmdTimeBad, CmdKeyBad}

C20_SkipStep ==
    (CommandStep /\ Last(input') \in UninterpretableCommands) =>
        /\ UNCHANGED <<current_measure, measure_offset, beats_per_measure, pending_tie>>
        /\ UNCHANGED <<part, current_time_sig>>
        /\ bpc' = "building"

C20_BadCommandSkipped == [][C20_SkipStep]_vars

\* a tie-start Note, a clef command with an unknown name, a Note: the build
\* ends with one measure holding just the two Notes, the second closing the tie
C20_Witness ==
    /\ bpc = "done"
    /\ input = <<NoteTied, CmdClefBad, NoteQ>>
    /\ Len(AllMeasures) = 1
    /\ Len(AllMeasures[1].items) = 2
    /\ TieMarks = <<"start", "stop">>


(***************************************************************************)
(* Properties of add_elements_to_score and of the Score's undo and redo.   *)
(***************************************************************************)
\* the Note, Rest and Chord items of a part and of its measures, each with its
\* absolute offset in the part
RECURSIVE AbsoluteEvents(_)
AbsoluteEvents(items) ==
    IF items = <<>> THEN <<>>
    ELSE LET it == Head(items) IN
         (IF it.obj.cls = "Measure"
          THEN [k \in 1..Len(EventsOf(it.obj)) |->
                   [offset |-> it.offset + EventsOf(it.obj)[k].offset,
                    obj |-> EventsOf(it.obj)[k].obj]]
          ELSE IF it.obj.cls \in {"Note", "Rest", "Chord"} THEN <<it>>
          ELSE <<>>) \o AbsoluteEvents(Tail(items))

\* the first iteration of the loop of an add call that inserts something
FirstInsert == apc = "adding" /\ added = <<>> /\ Len(part') = Len(part) + 1

\* C21: in an add call the first added element is inserted at the maximum of
\* onset + length over the existing events of the part, rests included and
\* onsets absolute in the part, or at 0 when the part has no events.
C21_StartOffset ==
    [][FirstInsert => Last(part').offset = HighestTime(AbsoluteEvents(part))]_vars


\* the items of the part the current add call has inserted so far
InsertedBy(list) ==
    SelectSeq([k \in 1..Len(list) |-> AddedObject(list[k], None)], ObjTruthy)

AddedItems == SubSeq(part, Len(part) - Len(InsertedBy(added)) + 1, Len(part))

AddedEvents == SelectSeq(AddedItems, LAMBDA it : it.obj.cls \in {"Note", "Rest", "Chord"})

\* what one iteration of the add loop does with the element elem
C22_AddStep(elem) ==
    LET obj == AddedObject(elem, pending_tie) IN
    /\ MeasuresOf(part') = MeasuresOf(part)
    /\ SubSeq(part', 1, Len(part)) = part
    /\ elem.kind \in {"Note", "Rest", "Chord"} =>
          /\ part' = Append(part, [offset |-> current_offset, obj |-> obj[1]])
          /\ obj[1].cls = elem.kind
          /\ current_offset' = current_offset + QuarterLength(elem.duration, elem.dotted)
    /\ elem.kind = "Barline" =>
          /\ part' = Append(part, [offset |-> current_offset, obj |-> obj[1]])
          /\ obj[1].cls = "Barline"
          /\ current_offset' = current_offset
    /\ elem.kind = "Command" =>
          /\ part' = IF obj # None
                     THEN Append(part, [offset |-> current_offset, obj |-> obj[1]])
                     ELSE part
          /\ current_offset' = current_offset

\* C22: an add call creates and closes no measure; a Note, Rest or Chord is
\* inserted at the running offset, which advances by its length, so each added
\* event starts where the previous added event ends; a Barline and a Command
\* insert their marking at the running offset and do not advance it.
C22_AddPlacement ==
    /\ [][apc = "adding" /\ added' # added => C22_AddStep(Last(added'))]_vars
    /\ [](apc \in {"adding", "raised"} =>
            /\ \A k \in 1..Len(AddedEvents) - 1 :
                  AddedEvents[k + 1].offset = AddedEvents[k].offset + AddedEvents[k].obj.ql
            /\ AddedEvents # <<>> =>
                  current_offset = Last(AddedEvents).offset + Last(AddedEvents).obj.ql)

\* a barline and a note were added after the one measure of a built score
C22_Witness ==
    /\ apc = "raised"
    /\ added = <<ParsedBarline("single"), NoteQ>>
    /\ Len(MeasuresOf(part)) = 1
    /\ part[Len(part) - 1].obj.cls = "Barline"
    /\ part[Len(part) - 1].offset = Last(part).offset
    /\ Last(part).offset > 0
    /\ current_offset = Last(part).offset + Unit


\* the claimed length of a duration in sixteenths of a quarter note
Sixteenths(duration, dotted) ==
    LET base == CASE duration = "w" -> 64
                  [] duration = "h" -> 32
                  [] duration = "q" -> 16
                  [] duration = "e" -> 8
                  [] duration = "s" -> 4
                  [] duration = "t" -> 2
    IN  IF dotted THEN (base * 3) \div 2 ELSE base

\* C23: the length of a Note, Rest or Chord is the base length of its duration
\* (w 4, h 2, q 1, e 0.5, s 0.25, t 0.125 quarters), times 1.5 when dotted:
\* q. is 1.5, h. is 3 and w. is 6 quarters.
C23_Lengths ==
    /\ \A d \in DurationCodes, dotted \in BOOLEAN :
          /\ 16 * CreateNote(ParsedNote(PC4, d, dotted, None, FALSE), pending_tie).ql
                = Sixteenths(d, dotted) * Unit
          /\ 16 * CreateRest(ParsedRest(d, dotted)).ql = Sixteenths(d, dotted) * Unit
          /\ 16 * CreateChord(ParsedChord(<<PC4, PE4>>, d, dotted, None)).ql
                = Sixteenths(d, dotted) * Unit
    /\ 2 * QuarterLength("q", TRUE) = 3 * Unit
    /\ QuarterLength("h", TRUE) = 3 * Unit
    /\ QuarterLength("w", TRUE) = 6 * Unit
    /\ (bpc = "building" /\ input # <<>> /\ IsMusic(Last(input))) =>
          /\ current_measure.items # <<>>
          /\ Last(current_measure.items).obj.cls = Last(input).kind
          /\ 16 * Last(current_measure.items).obj.ql
                = Sixteenths(Last(input).duration, Last(input).dotted) * Unit

\* a dotted whole note of 6 quarters was placed after a half rest
C23_Witness ==
    /\ bpc = "building"
    /\ input = <<RestH, NoteLong>>
    /\ Last(current_measure.items).obj.cls = "Note"
    /\ Last(current_measure.items).obj.ql = 6 * Unit
    /\ measure_offset = 6 * Unit


\* a step that is a call of undo(), of redo(), of transpose(2)
UndoStep == ret'.call = "undo" /\ edits' = edits /\ bpc' = bpc
RedoStep == ret'.call = "redo" /\ edits' = edits /\ bpc' = bpc
EditStep == edits' = edits + 1 /\ bpc' = bpc

\* C24: a new Score can neither undo nor redo; an edit (transpose) makes undo
\* available and empties the redo stack; undo() takes the last state off the
\* undo stack and puts the current one on the redo stack, redo() does the
\* reverse; with an empty stack they return False and change nothing.
C24_UndoRedo ==
    /\ [](edits = 0 /\ bpc \in {"idle", "done"} => undo_stack = <<>> /\ redo_stack = <<>>)
    /\ [][EditStep =>
            /\ undo_stack' # <<>>
            /\ Last(undo_stack') = part
            /\ redo_stack' = <<>>]_vars
    /\ [][UndoStep =>
            IF undo_stack = <<>>
            THEN ~ret'.value /\ UNCHANGED <<part, undo_stack, redo_stack>>
            ELSE /\ ret'.value
                 /\ part' = Last(undo_stack)
                 /\ Append(undo_stack', part') = undo_stack
                 /\ redo_stack' = Append(redo_stack, part)]_vars
    /\ [][RedoStep =>
            IF redo_stack = <<>>
            THEN ~ret'.value /\ UNCHANGED <<part, undo_stack, redo_stack>>
            ELSE /\ ret'.value
                 /\ part' = Last(redo_stack)
                 /\ Append(redo_stack', part') = redo_stack
                 /\ undo_stack' = Append(undo_stack, part)]_vars

\* two transpositions, two undos and one redo of a score of one note: the
\* score is the once transposed one, with the original below and the twice
\* transposed above
C24_Witness ==
    /\ bpc = "done"
    /\ input = <<NoteQ>>
    /\ edits = 2
    /\ ret = Return("redo", TRUE)
    /\ Len(undo_stack) = 1
    /\ Len(redo_stack) = 1
    /\ part = TransposeItems(undo_stack[1], 2)
    /\ redo_stack[1] = TransposeItems(part, 2)
    /\ part # undo_stack[1]


\* C27: add_elements_to_score returns normally and records the addition as an
\* undoable operation: after it undo is available and the saved state is the
\* content from before the elements were added.
C27_AddUndoable ==
    [][(apc = "adding" /\ apc' # "adding") =>
          /\ apc' # "raised"
          /\ undo_stack' # <<>>
          /\ AddedItems # <<>> => Last(undo_stack') # part']_vars


(***************************************************************************)
(* C25 and C26: what the lookaheads of a Note and of a Chord consume.      *)
(***************************************************************************)
\* an iteration of the while loop that appended a Note or a Chord
EmittedNoteOrChord ==
    /\ AtToken
    /\ Len(line_elements') = Len(line_elements) + 1
    /\ Last(line_elements').kind \in {"Note", "Chord"}

\* C25: a token is consumed as a lyric only when it starts with a double quote,
\* ends with one and has no other quote in between, and the lyric is the text
\* between the two; a token with text after its closing quote is not consumed
\* as a lyric.
C25_LyricToken ==
    [][(EmittedNoteOrChord /\ Last(line_elements').lyric # None) =>
          /\ QuotedLyric(tokens[i'])
          /\ Last(line_elements').lyric = Some(SubSeq(tokens[i'], 2, Len(tokens[i']) - 1))]_vars

\* the number of tokens after the first that the absorbing loop of a chord
\* token without its closing bracket takes in
RECURSIVE AbsorbedCount(_)
AbsorbedCount(rest) ==
    IF rest = <<>> THEN 0
    ELSE IF EndsWith(Head(rest), "]") THEN 1
    ELSE 1 + AbsorbedCount(Tail(rest))

\* C26: every token is consumed by at most one emitted element: the tokens a
\* chord token without its closing bracket absorbs are consumed by that chord
\* and are not looked at again.
C26_AbsorbedConsumed ==
    [][(EmittedNoteOrChord /\ StartsWith(Token, "[") /\ ~EndsWith(Token, "]")) =>
          i' >= i + 1 + AbsorbedCount(PyFrom(tokens, i + 1))]_vars


\* the number of marks `mark` among the first n tie marks
RECURSIVE CountMarks(_, _, _)
CountMarks(marks, n, mark) ==
    IF n = 0 THEN 0
    ELSE CountMarks(marks, n - 1, mark) + (IF marks[n] = mark THEN 1 ELSE 0)

\* C28: during and after one build on a fresh executor at most one tie-start is
\* pending; in every prefix of the notes processed there are at most as many
\* tie-stops as tie-starts, and a note is marked tie-stop only when a tie-start
\* was pending as it was processed.
C28_TieInvariant ==
    /\ [](/\ Len(pending_tie) <= 1
          /\ \A n \in 1..Len(TieMarks) :
                /\ CountMarks(TieMarks, n, "stop") <= CountMarks(TieMarks, n, "start")
                /\ TieMarks[n] = "stop" => n > 1 /\ TieMarks[n - 1] = "start"
          /\ pending_tie # None <=> (TieMarks # <<>> /\ Last(TieMarks) = "start"))
    /\ [][(MusicStep /\ Last(input').kind = "Note"
             /\ Last(current_measure'.items).obj.tie = "stop") => pending_tie # None]_vars

\* two tie-starts in a row and one tie-stop: nothing is pending after the build
C28_Witness ==
    /\ bpc = "done"
    /\ input = <<NoteTied, NoteTied, NoteQ>>
    /\ TieMarks = <<"start", "start", "stop">>
    /\ pending_tie = None


(***************************************************************************)
(* C29 and C30: termination of parse and its diagnostics.                  *)
(***************************************************************************)
\* the work a call of parse has left: the lines not yet done, and in the token
\* loop of a line the tokens not yet passed
Rank ==
    LET perLine == Len(text) + 3
        i_capped == IF i < Len(tokens) THEN i ELSE Len(tokens)
    IN  CASE ppc = "lines"  -> (Len(lines) - line_num) * perLine + 1
          [] ppc = "tokens" -> (Len(lines) - line_num) * perLine - i_capped
          [] OTHER -> 0

\* C29: parsing terminates: every iteration of the token loop of a line moves
\* the token index forward by at least one, so a line emits at most as many
\* elements as it has tokens, and every step of a call leaves less work.
C29_Terminates ==
    /\ [](AtToken => TokenStep(tokens, i).consumed >= 1)
    /\ [](ppc = "tokens" => /\ Len(line_elements) <= i
                            /\ Len(line_elements) <= Len(tokens)
                            /\ Len(tokens) <= Len(text))
    /\ [](ppc \in {"lines", "tokens"} => line_num <= Len(lines) /\ Rank > 0)
    /\ [][AtToken => i' > i /\ Len(line_elements') <= Len(line_elements) + 1]_vars
    /\ [][(ppc \in {"lines", "tokens"}) => Rank' < Rank]_vars

\* a line of three tokens, one of them unknown, was parsed in three iterations
\* and the call returned
C29_Witness ==
    /\ ppc = "done"
    /\ text = <<"Z","9"," ","C","4"," ","|">>
    /\ elements = <<ParsedNote(PC4, "q", FALSE, None, FALSE), ParsedBarline("single")>>


====
